---- MODULE Spec2Model ----
(***************************************************************************)
(* Model of the authentication / authorization / validation chain and of   *)
(* the v1 <-> v2 user reconciliation of the exam-generator REST API.       *)
(*                                                                         *)
(* JavaScript values are modelled as TLA+ strings and integers.  The two   *)
(* non-string values a field can hold, null and undefined, are the         *)
(* reserved strings NULL and UNDEFINED; no request input contains "<".     *)
(***************************************************************************)
EXTENDS Integers, Sequences, FiniteSets, TLC

NULL == "<null>"

UNDEFINED == "<undefined>"

(***************************************************************************)
(* String primitives of the JavaScript runtime.                            *)
(***************************************************************************)
CharAt(s, i) == SubSeq(s, i, i)

LowerChars == <<"a","b","c","d","e","f","g","h","i","j","k","l","m",
                "n","o","p","q","r","s","t","u","v","w","x","y","z">>

UpperChars == <<"A","B","C","D","E","F","G","H","I","J","K","L","M",
                "N","O","P","Q","R","S","T","U","V","W","X","Y","Z">>

DigitChars == <<"0","1","2","3","4","5","6","7","8","9">>

LowerSet == {LowerChars[i] : i \in 1..26}

UpperSet == {UpperChars[i] : i \in 1..26}

DigitSet == {DigitChars[i] : i \in 1..10}

ToUpperMap ==
  [c \in LowerSet |-> UpperChars[CHOOSE i \in 1..26 : LowerChars[i] = c]]

ToLowerMap ==
  [c \in UpperSet |-> LowerChars[CHOOSE i \in 1..26 : UpperChars[i] = c]]

IsLower(c) == c \in LowerSet

IsUpper(c) == c \in UpperSet

IsDigit(c) == c \in DigitSet

UpperOfChar(c) == IF c \in LowerSet THEN ToUpperMap[c] ELSE c

LowerOfChar(c) == IF c \in UpperSet THEN ToLowerMap[c] ELSE c

RECURSIVE MapChars(_, _, _)
MapChars(s, i, upper) ==
  IF i > Len(s) THEN ""
  ELSE (IF upper THEN UpperOfChar(CharAt(s, i)) ELSE LowerOfChar(CharAt(s, i)))
       \o MapChars(s, i + 1, upper)

toUpperCase(s) == MapChars(s, 1, TRUE)

toLowerCase(s) == MapChars(s, 1, FALSE)

\* String.prototype.trim: drops leading and trailing blanks
RECURSIVE TrimLeft(_)
TrimLeft(s) ==
  IF Len(s) > 0 /\ CharAt(s, 1) = " " THEN TrimLeft(SubSeq(s, 2, Len(s))) ELSE s

RECURSIVE TrimRight(_)
TrimRight(s) ==
  IF Len(s) > 0 /\ CharAt(s, Len(s)) = " "
  THEN TrimRight(SubSeq(s, 1, Len(s) - 1)) ELSE s

trim(s) == TrimRight(TrimLeft(s))

\* String.prototype.split(sep) for a one-character separator
RECURSIVE SplitFrom(_, _, _, _)
SplitFrom(s, sep, i, cur) ==
  IF i > Len(s) THEN <<cur>>
  ELSE IF CharAt(s, i) = sep
       THEN <<cur>> \o SplitFrom(s, sep, i + 1, "")
       ELSE SplitFrom(s, sep, i + 1, cur \o CharAt(s, i))

split(s, sep) == SplitFrom(s, sep, 1, "")

AllChars(s, P(_)) == \A i \in 1..Len(s) : P(CharAt(s, i))

SomeChar(s, P(_)) == \E i \in 1..Len(s) : P(CharAt(s, i))

StartsWith(s, p) == Len(s) >= Len(p) /\ SubSeq(s, 1, Len(p)) = p

Includes(s, p) ==
  \E i \in 1..(Len(s) - Len(p) + 1) : SubSeq(s, i, i + Len(p) - 1) = p

\* value of a decimal digit string
RECURSIVE DigitsValue(_, _)
DigitsValue(s, acc) ==
  IF Len(s) = 0 THEN acc
  ELSE DigitsValue(SubSeq(s, 2, Len(s)),
         10 * acc + (CHOOSE d \in 0..9 : DigitChars[d + 1] = CharAt(s, 1)))

RECURSIVE LeadingDigits(_)
LeadingDigits(s) ==
  IF Len(s) > 0 /\ IsDigit(CharAt(s, 1))
  THEN CharAt(s, 1) \o LeadingDigits(SubSeq(s, 2, Len(s))) ELSE ""

NaN == 0 - 999999

\* parseInt(v): the argument is trimmed on the left, an optional sign is read
\* and then the longest prefix of digits.  Route parameters are strings; a
\* parameter that validation coerced to a number is held as its decimal
\* string, which parseInt maps back to that number.
parseInt(v) ==
  LET t == TrimLeft(v)
      neg == Len(t) > 0 /\ CharAt(t, 1) = "-"
      pos == Len(t) > 0 /\ CharAt(t, 1) = "+"
      r == IF neg \/ pos THEN SubSeq(t, 2, Len(t)) ELSE t
      d == LeadingDigits(r)
  IN IF d = "" THEN NaN
     ELSE IF neg THEN 0 - DigitsValue(d, 0) ELSE DigitsValue(d, 0)

\* `${v}`: null and undefined are written out as words
Str(v) == IF v = NULL THEN "null" ELSE IF v = UNDEFINED THEN "undefined" ELSE v

\* JavaScript truthiness of a string-or-absent value
Truthy(v) == v # NULL /\ v # UNDEFINED /\ v # ""

\* a || b
Or(a, b) == IF Truthy(a) THEN a ELSE b

(***************************************************************************)
(* Format checks used by the zod schemas.                                  *)
(***************************************************************************)
IsAlnum(c) == IsLower(c) \/ IsUpper(c) \/ IsDigit(c)

IsLetter(c) == IsLower(c) \/ IsUpper(c)

IsLocalChar(c) == IsAlnum(c) \/ c \in {"_", "'", "+", "-", "."}

IsLabelChar(c) == IsAlnum(c) \/ c = "-"

\* z.string().email(): local@label(.label)*.tld
IsEmail(s) ==
  LET parts == split(s, "@") IN
  /\ Len(parts) = 2
  /\ LET local == parts[1]
         labels == split(parts[2], ".")
     IN /\ Len(local) > 0
        /\ AllChars(local, IsLocalChar)
        /\ CharAt(local, 1) # "."
        /\ ~Includes(s, "..")
        /\ CharAt(local, Len(local)) # "." /\ CharAt(local, Len(local)) # "'"
        /\ Len(labels) >= 2
        /\ \A i \in 1..(Len(labels) - 1) :
             /\ Len(labels[i]) > 0
             /\ IsAlnum(CharAt(labels[i], 1))
             /\ AllChars(labels[i], IsLabelChar)
        /\ Len(labels[Len(labels)]) >= 2
        /\ AllChars(labels[Len(labels)], IsLetter)

\* z.string().url(): an http(s) scheme followed by a host, no blanks
IsUrl(s) ==
  /\ \/ StartsWith(s, "http://") /\ Len(s) > 7
     \/ StartsWith(s, "https://") /\ Len(s) > 8
  /\ ~Includes(s, " ")

\* /^\d{10,11}$/
IsPhoneV2(s) == Len(s) \in 10..11 /\ AllChars(s, IsDigit)

IsRegisterPhoneChar(c) == IsDigit(c) \/ c \in {" ", "(", ")", "-"}

\* /^\+?[\d\s()-]{10,20}$/
IsPhoneRegister(s) ==
  LET r == IF StartsWith(s, "+") THEN SubSeq(s, 2, Len(s)) ELSE s
  IN Len(r) \in 10..20 /\ AllChars(r, IsRegisterPhoneChar)

\* /^(?=.*[a-z])(?=.*[A-Z])(?=.*\d)/
IsStrongPassword(s) ==
  SomeChar(s, IsLower) /\ SomeChar(s, IsUpper) /\ SomeChar(s, IsDigit)

IsString(v) == v # NULL /\ v # UNDEFINED

(***************************************************************************)
(* Request bodies are records that carry every field of their schema; a    *)
(* field the client did not send holds UNDEFINED.                          *)
(* A schema yields [success, data, fields]: data is the normalised body    *)
(* and fields the set of field paths with an issue.                        *)
(***************************************************************************)

\* z.string().min(lo).max(hi) on a required or optional field
BadText(v, lo, hi, optional) ==
  IF v = UNDEFINED THEN ~optional
  ELSE v = NULL \/ Len(v) < lo \/ Len(v) > hi

\* .optional().nullable().transform(val => val || null)
NullableOut(v) == IF Truthy(v) THEN v ELSE NULL

BadEnum(v, allowed) == v # UNDEFINED /\ v \notin allowed

\* createUserSchema
createUserSchema(b) ==
  LET bad == {f \in {"primeiro_nome", "sobrenome", "email", "senha",
                     "tipo_usuario", "telefone", "foto"} :
                CASE f = "primeiro_nome" -> BadText(b.primeiro_nome, 2, 50, FALSE)
                  [] f = "sobrenome" -> BadText(b.sobrenome, 2, 50, FALSE)
                  [] f = "email" -> ~IsString(b.email) \/ ~IsEmail(b.email)
                  [] f = "senha" -> BadText(b.senha, 6, 100, FALSE)
                  [] f = "tipo_usuario" ->
                       BadEnum(b.tipo_usuario, {"professor", "admin"})
                  [] f = "telefone" ->
                       IsString(b.telefone) /\ ~IsPhoneV2(b.telefone)
                  [] f = "foto" -> IsString(b.foto) /\ ~IsUrl(b.foto)}
  IN [success |-> bad = {},
      fields |-> bad,
      data |-> IF bad # {} THEN b
               ELSE [primeiro_nome |-> trim(b.primeiro_nome),
                     sobrenome |-> trim(b.sobrenome),
                     email |-> trim(toLowerCase(b.email)),
                     senha |-> b.senha,
                     tipo_usuario |-> b.tipo_usuario,
                     telefone |-> NullableOut(b.telefone),
                     foto |-> NullableOut(b.foto)]]

\* updateUserSchema: every field optional, then the "at least one field"
\* refinement over the transformed object
updateUserSchema(b) ==
  LET bad == {f \in {"primeiro_nome", "sobrenome", "email", "senha",
                     "tipo_usuario", "telefone", "foto"} :
                CASE f = "primeiro_nome" -> BadText(b.primeiro_nome, 2, 50, TRUE)
                  [] f = "sobrenome" -> BadText(b.sobrenome, 2, 50, TRUE)
                  [] f = "email" ->
                       b.email # UNDEFINED /\ (b.email = NULL \/ ~IsEmail(b.email))
                  [] f = "senha" -> BadText(b.senha, 6, 100, TRUE)
                  [] f = "tipo_usuario" ->
                       BadEnum(b.tipo_usuario, {"professor", "admin"})
                  [] f = "telefone" ->
                       IsString(b.telefone) /\ ~IsPhoneV2(b.telefone)
                  [] f = "foto" -> IsString(b.foto) /\ ~IsUrl(b.foto)}
      out == [primeiro_nome |-> IF IsString(b.primeiro_nome)
                                THEN trim(b.primeiro_nome) ELSE b.primeiro_nome,
              sobrenome |-> IF IsString(b.sobrenome)
                            THEN trim(b.sobrenome) ELSE b.sobrenome,
              email |-> IF IsString(b.email)
                        THEN trim(toLowerCase(b.email)) ELSE b.email,
              senha |-> b.senha,
              tipo_usuario |-> b.tipo_usuario,
              telefone |-> NullableOut(b.telefone),
              foto |-> NullableOut(b.foto)]
      empty == \A f \in DOMAIN out : out[f] = UNDEFINED \/ out[f] = NULL
  IN IF bad # {} THEN [success |-> FALSE, fields |-> bad, data |-> b]
     ELSE IF empty THEN [success |-> FALSE, fields |-> {""}, data |-> b]
     ELSE [success |-> TRUE, fields |-> {}, data |-> out]

\* registerSchema: unknown keys are stripped, papel defaults to PROFESSOR
registerSchema(b) ==
  LET bad == {f \in {"nome", "primeiro_nome", "sobrenome", "email", "senha",
                     "papel", "telefone", "foto"} :
                CASE f = "nome" -> BadText(b.nome, 2, 100, TRUE)
                  [] f = "primeiro_nome" -> BadText(b.primeiro_nome, 2, 50, TRUE)
                  [] f = "sobrenome" -> BadText(b.sobrenome, 2, 50, TRUE)
                  [] f = "email" ->
                       ~IsString(b.email) \/ ~IsEmail(b.email) \/ Len(b.email) > 255
                  [] f = "senha" ->
                       BadText(b.senha, 6, 100, FALSE) \/ ~IsStrongPassword(b.senha)
                  [] f = "papel" -> BadEnum(b.papel, {"PROFESSOR", "ADMIN"})
                  [] f = "telefone" ->
                       b.telefone # UNDEFINED
                       /\ (b.telefone = NULL \/ ~IsPhoneRegister(b.telefone))
                  [] f = "foto" ->
                       b.foto # UNDEFINED /\ (b.foto = NULL \/ ~IsUrl(b.foto))}
      named == Truthy(b.nome) \/ (Truthy(b.primeiro_nome) /\ Truthy(b.sobrenome))
  IN IF bad # {} THEN [success |-> FALSE, fields |-> bad, data |-> b]
     ELSE IF ~named THEN [success |-> FALSE, fields |-> {"nome"}, data |-> b]
     ELSE [success |-> TRUE, fields |-> {},
           data |-> [b EXCEPT !.papel = IF b.papel = UNDEFINED
                                        THEN "PROFESSOR" ELSE b.papel]]

\* loginSchema: email is checked, never rewritten; senha needs one character
loginSchema(b) ==
  LET bad == {f \in {"email", "senha"} :
                CASE f = "email" -> ~IsString(b.email) \/ ~IsEmail(b.email)
                  [] f = "senha" -> ~IsString(b.senha) \/ Len(b.senha) < 1}
  IN [success |-> bad = {}, fields |-> bad, data |-> b]

\* idParamSchema: /^\d+$/, Number, > 0
idParamSchema(p) ==
  LET ok == IsString(p.id) /\ Len(p.id) > 0 /\ AllChars(p.id, IsDigit)
               /\ DigitsValue(p.id, 0) > 0
  IN [success |-> ok,
      fields |-> IF ok THEN {} ELSE {"id"},
      data |-> IF ok THEN [id |-> ToString(DigitsValue(p.id, 0))] ELSE p]

(***************************************************************************)
(* Error taxonomy.  An error is [name, status, code]; NoError stands for   *)
(* "nothing was thrown".                                                   *)
(***************************************************************************)
NoError ==
  [name |-> "", message |-> "", status |-> 0, code |-> "", details |-> {}]

\* new AppError(message, statusCode, code)
AppError(message, status, code) ==
  [name |-> "AppError", message |-> message, status |-> status, code |-> code,
   details |-> {}]

ValidationError ==
  [name |-> "ValidationError", message |-> "", status |-> 400,
   code |-> "VALIDATION_ERROR", details |-> {}]

UnauthorizedError ==
  [name |-> "UnauthorizedError", message |-> "", status |-> 401,
   code |-> "UNAUTHORIZED", details |-> {}]

ForbiddenError ==
  [name |-> "ForbiddenError", message |-> "", status |-> 403,
   code |-> "FORBIDDEN", details |-> {}]

NotFoundError ==
  [name |-> "NotFoundError", message |-> "", status |-> 404,
   code |-> "NOT_FOUND", details |-> {}]

ConflictError ==
  [name |-> "ConflictError", message |-> "", status |-> 409,
   code |-> "CONFLICT", details |-> {}]

InternalError ==
  [name |-> "InternalError", message |-> "", status |-> 500,
   code |-> "INTERNAL_ERROR", details |-> {}]

\* server.js, "Middleware de 404": the answer to a request no route matched
RouteNotFound ==
  [name |-> "", message |-> "Rota não encontrada", status |-> 404,
   code |-> "NOT_FOUND", details |-> {}]

(***************************************************************************)
(* Token service (config/jwt.js).  A token string encodes its payload;     *)
(* the signature is modelled by the set `signed` of payloads the server    *)
(* has signed: a string verifies only if it encodes one of them.           *)
(* Time is counted in hours.                                               *)
(***************************************************************************)
JWT_EXPIRES_IN == 1

Encode(p) ==
  "jwt." \o ToString(p.sub) \o "." \o p.email \o "." \o p.role
         \o "." \o ToString(p.iat)

\* a payload whose role is read from tipo_usuario alone
TokenPayload_TipoRole(payload, clock) ==
  [sub |-> payload.id, email |-> payload.email,
   role |-> Str(payload.tipo_usuario),
   iat |-> clock, exp |-> clock + JWT_EXPIRES_IN]

\* jwt.sign payload: {sub, email, role: papel || tipo_usuario, iat, exp}
TokenPayload(payload, clock) ==
  [sub |-> payload.id, email |-> payload.email,
   role |-> Or(payload.papel, payload.tipo_usuario),
   iat |-> clock, exp |-> clock + JWT_EXPIRES_IN]

generateToken(payload, clock) == Encode(TokenPayload(payload, clock))

\* a jwt.verify that ignores exp
verifyToken_NoExpiry(token, sgn, clock) ==
  IF \E p \in sgn : Encode(p) = token
  THEN [ok |-> TRUE, error |-> "",
        decoded |-> CHOOSE q \in sgn : Encode(q) = token]
  ELSE [ok |-> FALSE, error |-> "JsonWebTokenError",
        decoded |-> [sub |-> 0, email |-> "", role |-> "", iat |-> 0, exp |-> 0]]

\* jwt.verify: [ok, error name, decoded payload]
verifyToken(token, sgn, clock) ==
  IF \E p \in sgn : Encode(p) = token
  THEN LET p == CHOOSE q \in sgn : Encode(q) = token
       IN IF clock >= p.exp
          THEN [ok |-> FALSE, error |-> "TokenExpiredError", decoded |-> p]
          ELSE [ok |-> TRUE, error |-> "", decoded |-> p]
  ELSE [ok |-> FALSE, error |-> "JsonWebTokenError",
        decoded |-> [sub |-> 0, email |-> "", role |-> "", iat |-> 0, exp |-> 0]]

(***************************************************************************)
(* Middlewares.  A request context is                                      *)
(*   [authorization, params, body, user, err, ran]                         *)
(* where user is NoUser until authMiddleware attaches an identity, err is  *)
(* the error handed to next(error) and ran lists the stages that were      *)
(* entered.                                                                *)
(***************************************************************************)
NoUser == [id |-> 0, email |-> "", role |-> ""]

Fail(ctx, e) == [ctx EXCEPT !.err = e]

\* authMiddleware that takes the last part of the header as the token,
\* however many parts the header has
authMiddleware_AnyParts(ctx, sgn, clock) ==
  LET authHeader == ctx.authorization
      parts == split(authHeader, " ")
  IN IF ~Truthy(authHeader) THEN Fail(ctx, UnauthorizedError)
     ELSE IF toLowerCase(parts[1]) # "bearer" THEN Fail(ctx, UnauthorizedError)
     ELSE LET v == verifyToken(parts[Len(parts)], sgn, clock)
          IN IF v.ok
             THEN [ctx EXCEPT !.user = [id |-> v.decoded.sub,
                                        email |-> v.decoded.email,
                                        role |-> v.decoded.role]]
             ELSE Fail(ctx, UnauthorizedError)

\* middlewares/auth.js
authMiddleware(ctx, sgn, clock) ==
  LET authHeader == ctx.authorization
      parts == split(authHeader, " ")
  IN IF ~Truthy(authHeader) THEN Fail(ctx, UnauthorizedError)
     ELSE IF Len(parts) # 2 THEN Fail(ctx, UnauthorizedError)
     ELSE IF toLowerCase(parts[1]) # "bearer" THEN Fail(ctx, UnauthorizedError)
     ELSE LET v == verifyToken(parts[2], sgn, clock)
          IN IF v.ok
             THEN [ctx EXCEPT !.user = [id |-> v.decoded.sub,
                                        email |-> v.decoded.email,
                                        role |-> v.decoded.role]]
             ELSE Fail(ctx, UnauthorizedError)

\* authorize that compares the role with the list letter for letter
authorize_CaseSensitive(allowedRoles, ctx) ==
  IF ctx.user = NoUser THEN Fail(ctx, UnauthorizedError)
  ELSE IF Len(allowedRoles) = 0 THEN ctx
  ELSE IF ~Truthy(ctx.user.role) THEN Fail(ctx, ForbiddenError)
  ELSE IF \E i \in 1..Len(allowedRoles) : allowedRoles[i] = ctx.user.role
       THEN ctx
       ELSE Fail(ctx, ForbiddenError)

\* middlewares/authorize.js: authorize(allowedRoles)
authorize(allowedRoles, ctx) ==
  IF ctx.user = NoUser THEN Fail(ctx, UnauthorizedError)
  ELSE IF Len(allowedRoles) = 0 THEN ctx
  ELSE IF ~Truthy(ctx.user.role) THEN Fail(ctx, ForbiddenError)
  ELSE IF \E i \in 1..Len(allowedRoles) :
            toUpperCase(allowedRoles[i]) = toUpperCase(ctx.user.role)
       THEN ctx
       ELSE Fail(ctx, ForbiddenError)

isAdmin(ctx) == authorize(<<"ADMIN">>, ctx)

isProfessorOrAdmin(ctx) == authorize(<<"PROFESSOR", "ADMIN">>, ctx)

\* isOwnerOrAdmin that knows the administrator by the upper-case spelling only
isOwnerOrAdmin_UpperCaseAdmin(paramName, ctx) ==
  IF ctx.user = NoUser THEN Fail(ctx, UnauthorizedError)
  ELSE LET resourceId == parseInt(ctx.params[paramName])
       IN IF ctx.user.role = "ADMIN" THEN ctx
          ELSE IF resourceId # NaN /\ resourceId = ctx.user.id THEN ctx
          ELSE Fail(ctx, ForbiddenError)

\* isOwnerOrAdmin without the ownership comparison: any identity passes
isOwnerOrAdmin_AnyIdentity(paramName, ctx) ==
  IF ctx.user = NoUser THEN Fail(ctx, UnauthorizedError) ELSE ctx

\* middlewares/authorize.js: isOwnerOrAdmin(paramName)
isOwnerOrAdmin(paramName, ctx) ==
  IF ctx.user = NoUser THEN Fail(ctx, UnauthorizedError)
  ELSE LET resourceId == parseInt(ctx.params[paramName])
           userId == ctx.user.id
           userRole == IF IsString(ctx.user.role)
                       THEN toUpperCase(ctx.user.role) ELSE UNDEFINED
       IN IF userRole = "ADMIN" THEN ctx
          ELSE IF resourceId # NaN /\ resourceId = userId THEN ctx
          ELSE Fail(ctx, ForbiddenError)

\* Array.prototype.join(sep)
RECURSIVE join(_, _)
join(path, sep) ==
  IF Len(path) = 0 THEN ""
  ELSE IF Len(path) = 1 THEN path[1]
  ELSE path[1] \o sep \o join(Tail(path), sep)

\* err.path of the issues of a failed safeParse: the key of the field the
\* rule is on, and the empty path for a rule on the whole object
ZodPaths(result) == {IF f = "" THEN <<>> ELSE <<f>> : f \in result.fields}

\* a validate that hands the request on as received
validate_KeepsRaw(result, source, ctx) ==
  IF ~result.success
  THEN Fail(ctx, [ValidationError EXCEPT
                    !.message = "Dados de entrada inválidos",
                    !.details = {[field |-> join(path, ".")] :
                                   path \in ZodPaths(result)}])
  ELSE ctx

\* middlewares/validate.js: validate(schema, source), given the schema's result
validate(result, source, ctx) ==
  IF ~result.success
  THEN Fail(ctx, [ValidationError EXCEPT
                    !.message = "Dados de entrada inválidos",
                    !.details = {[field |-> join(path, ".")] :
                                   path \in ZodPaths(result)}])
  ELSE [ctx EXCEPT ![source] = result.data]

\* config/multer.js: upload.single('foto') leaves a JSON request untouched
uploadSingle(ctx) == ctx

(***************************************************************************)
(* Credential store: a function from the ids of the stored rows to rows    *)
(*   [id, nome, primeiro_nome, sobrenome, email, senha, papel,             *)
(*    tipo_usuario, telefone, foto].                                       *)
(* A column that a create call leaves undefined is stored as null.         *)
(***************************************************************************)
Db(v) == IF v = UNDEFINED THEN NULL ELSE v

\* bcrypt.hash(senha, SALT_ROUNDS)
bcryptHash(senha) == "$2b$10$" \o senha

\* bcrypt.compare(senha, stored)
bcryptCompare(senha, stored) == stored = bcryptHash(senha)

\* prisma.user.findUnique({ where: { email } })
emailExists(us, email) == \E i \in DOMAIN us : us[i].email = email

Insert(us, id, row) == [i \in DOMAIN us \cup {id} |-> IF i = id THEN row ELSE us[i]]

Remove(us, id) == [i \in DOMAIN us \ {id} |-> us[i]]

\* the select of the v2 user service
SelectV2(u) ==
  [id |-> u.id, primeiro_nome |-> u.primeiro_nome, sobrenome |-> u.sobrenome,
   email |-> u.email, tipo_usuario |-> u.tipo_usuario,
   telefone |-> u.telefone, foto |-> u.foto]

\* const { senha: _, ...userWithoutPassword } = user
WithoutPassword(u) == [f \in DOMAIN u \ {"senha"} |-> u[f]]

\* a service call yields [err, users, out, token]: the error thrown (or
\* NoError), the store after the call, the records returned and the token
Outcome(err, us, out, token) ==
  [err |-> err, users |-> us, out |-> out, token |-> token]

\* register that derives missing halves by splitting nome at its first space
register_SplitNome(us, id, userData, clock) ==
  IF emailExists(us, userData.email)
  THEN Outcome(AppError("Email já está em uso", 409, "EMAIL_IN_USE"), us, <<>>, "")
  ELSE LET halves == split(Str(userData.nome), " ")
           user ==
             [id |-> id,
              nome |-> Or(userData.nome,
                          Str(userData.primeiro_nome) \o " "
                            \o Str(userData.sobrenome)),
              primeiro_nome |-> Or(userData.primeiro_nome, halves[1]),
              sobrenome |-> Or(userData.sobrenome, halves[Len(halves)]),
              email |-> userData.email,
              senha |-> bcryptHash(userData.senha),
              papel |-> Or(userData.papel, "PROFESSOR"),
              tipo_usuario |-> toLowerCase(Or(userData.papel, "PROFESSOR")),
              telefone |-> Db(userData.telefone),
              foto |-> Db(userData.foto)]
       IN Outcome(NoError, Insert(us, id, user), <<WithoutPassword(user)>>,
                  generateToken(user, clock))

\* AuthService.register
register(us, id, userData, clock) ==
  IF emailExists(us, userData.email)
  THEN Outcome(AppError("Email já está em uso", 409, "EMAIL_IN_USE"), us, <<>>, "")
  ELSE LET user ==
             [id |-> id,
              nome |-> Or(userData.nome,
                          Str(userData.primeiro_nome) \o " "
                            \o Str(userData.sobrenome)),
              primeiro_nome |-> Db(userData.primeiro_nome),
              sobrenome |-> Db(userData.sobrenome),
              email |-> userData.email,
              senha |-> bcryptHash(userData.senha),
              papel |-> Or(userData.papel, "PROFESSOR"),
              tipo_usuario |-> toLowerCase(Or(userData.papel, "PROFESSOR")),
              telefone |-> Db(userData.telefone),
              foto |-> Db(userData.foto)]
       IN Outcome(NoError, Insert(us, id, user), <<WithoutPassword(user)>>,
                  generateToken(user, clock))

InvalidCredentials ==
  AppError("Credenciais inválidas", 401, "INVALID_CREDENTIALS")

\* a login that tells an unknown address from a wrong password
login_RevealsEmail(us, email, senha, clock) ==
  IF ~emailExists(us, email)
  THEN Outcome(AppError("Usuário não encontrado", 404, "USER_NOT_FOUND"),
               us, <<>>, "")
  ELSE LET user == us[CHOOSE i \in DOMAIN us : us[i].email = email]
       IN IF ~bcryptCompare(senha, user.senha)
          THEN Outcome(InvalidCredentials, us, <<>>, "")
          ELSE Outcome(NoError, us, <<WithoutPassword(user)>>,
                       generateToken(user, clock))

\* AuthService.login
login(us, email, senha, clock) ==
  IF ~emailExists(us, email)
  THEN Outcome(InvalidCredentials, us, <<>>, "")
  ELSE LET user == us[CHOOSE i \in DOMAIN us : us[i].email = email]
       IN IF ~bcryptCompare(senha, user.senha)
          THEN Outcome(InvalidCredentials, us, <<>>, "")
          ELSE Outcome(NoError, us, <<WithoutPassword(user)>>,
                       generateToken(user, clock))

\* AuthService.findById
findById(us, id) ==
  IF id \notin DOMAIN us
  THEN Outcome(AppError("Usuário não encontrado", 404, "USER_NOT_FOUND"), us, <<>>, "")
  ELSE Outcome(NoError, us, <<WithoutPassword(us[id])>>, "")

\* userService.getAllUsers: newest first
RECURSIVE NewestFirst(_, _)
NewestFirst(us, ids) ==
  IF ids = {} THEN <<>>
  ELSE LET m == CHOOSE i \in ids : \A j \in ids : j <= i
       IN <<SelectV2(us[m])>> \o NewestFirst(us, ids \ {m})

getAllUsers(us) == Outcome(NoError, us, NewestFirst(us, DOMAIN us), "")

InvalidId(userId) == userId = 0 \/ userId = NaN \/ userId <= 0

\* userService.getUserById
getUserById(us, userId) ==
  IF InvalidId(userId) THEN Outcome(ValidationError, us, <<>>, "")
  ELSE IF userId \notin DOMAIN us THEN Outcome(NotFoundError, us, <<>>, "")
  ELSE Outcome(NoError, us, <<SelectV2(us[userId])>>, "")

\* createUser that leaves papel at its PROFESSOR default
createUser_DefaultPapel(us, id, userData) ==
  IF emailExists(us, userData.email)
  THEN Outcome(ConflictError, us, <<>>, "")
  ELSE LET dadosUsuario ==
             [id |-> id,
              primeiro_nome |-> userData.primeiro_nome,
              sobrenome |-> userData.sobrenome,
              tipo_usuario |-> Or(userData.tipo_usuario, "professor"),
              telefone |-> Or(userData.telefone, NULL),
              nome |-> trim(Str(userData.primeiro_nome) \o " "
                              \o Str(userData.sobrenome)),
              papel |-> "PROFESSOR",
              email |-> userData.email,
              senha |-> userData.senha,
              foto |-> Or(userData.foto, NULL)]
       IN Outcome(NoError, Insert(us, id, dadosUsuario),
                  <<SelectV2(dadosUsuario)>>, "")

\* userService.createUser
createUser(us, id, userData) ==
  IF emailExists(us, userData.email)
  THEN Outcome(ConflictError, us, <<>>, "")
  ELSE LET dadosUsuario ==
             [id |-> id,
              primeiro_nome |-> userData.primeiro_nome,
              sobrenome |-> userData.sobrenome,
              tipo_usuario |-> Or(userData.tipo_usuario, "professor"),
              telefone |-> Or(userData.telefone, NULL),
              nome |-> trim(Str(userData.primeiro_nome) \o " "
                              \o Str(userData.sobrenome)),
              papel |-> IF userData.tipo_usuario = "admin"
                        THEN "ADMIN" ELSE "PROFESSOR",
              email |-> userData.email,
              senha |-> userData.senha,
              foto |-> Or(userData.foto, NULL)]
       IN Outcome(NoError, Insert(us, id, dadosUsuario),
                  <<SelectV2(dadosUsuario)>>, "")

\* userService.updateUser: the fields of dadosAtualizacao overwrite the row
updateUser(us, userId, userData) ==
  IF InvalidId(userId) THEN Outcome(ValidationError, us, <<>>, "")
  ELSE IF userId \notin DOMAIN us THEN Outcome(NotFoundError, us, <<>>, "")
  ELSE LET usuarioExistente == us[userId] IN
    IF /\ Truthy(userData.email)
       /\ userData.email # usuarioExistente.email
       /\ emailExists(us, userData.email)
    THEN Outcome(ConflictError, us, <<>>, "")
    ELSE LET primeiroNome == Or(userData.primeiro_nome,
                                usuarioExistente.primeiro_nome)
             sobrenome == Or(userData.sobrenome, usuarioExistente.sobrenome)
             novo ==
               [id |-> usuarioExistente.id,
                primeiro_nome |-> IF Truthy(userData.primeiro_nome)
                                  THEN userData.primeiro_nome
                                  ELSE usuarioExistente.primeiro_nome,
                sobrenome |-> IF Truthy(userData.sobrenome)
                              THEN userData.sobrenome
                              ELSE usuarioExistente.sobrenome,
                tipo_usuario |-> IF Truthy(userData.tipo_usuario)
                                 THEN userData.tipo_usuario
                                 ELSE usuarioExistente.tipo_usuario,
                telefone |-> IF userData.telefone # UNDEFINED
                             THEN userData.telefone
                             ELSE usuarioExistente.telefone,
                nome |-> IF Truthy(userData.primeiro_nome)
                            \/ Truthy(userData.sobrenome)
                         THEN trim(Str(primeiroNome) \o " " \o Str(sobrenome))
                         ELSE usuarioExistente.nome,
                papel |-> IF Truthy(userData.tipo_usuario)
                          THEN (IF userData.tipo_usuario = "admin"
                                THEN "ADMIN" ELSE "PROFESSOR")
                          ELSE usuarioExistente.papel,
                email |-> IF Truthy(userData.email)
                          THEN userData.email ELSE usuarioExistente.email,
                senha |-> IF Truthy(userData.senha)
                          THEN userData.senha ELSE usuarioExistente.senha,
                foto |-> IF userData.foto # UNDEFINED
                         THEN userData.foto ELSE usuarioExistente.foto]
         IN Outcome(NoError, Insert(us, userId, novo), <<SelectV2(novo)>>, "")

\* userService.deleteUser: returns {id, primeiro_nome, sobrenome, email}
deleteUser(us, userId) ==
  IF InvalidId(userId) THEN Outcome(ValidationError, us, <<>>, "")
  ELSE IF userId \notin DOMAIN us THEN Outcome(NotFoundError, us, <<>>, "")
  ELSE Outcome(NoError, Remove(us, userId),
               <<[id |-> us[userId].id,
                  primeiro_nome |-> us[userId].primeiro_nome,
                  sobrenome |-> us[userId].sobrenome,
                  email |-> us[userId].email]>>, "")

(***************************************************************************)
(* Subjects and questions (services/subjectService.js,                     *)
(* services/questionService.js and their controllers).  A request body     *)
(* holds JSON numbers in dificuldade, disciplinaId, autorId and            *)
(* professorId; ABSENT stands for a number the body does not hold.  A      *)
(* route parameter is always a string.                                     *)
(***************************************************************************)
ABSENT == 0 - 888888

\* !n for a number-or-absent value
Falsy(n) == n = ABSENT \/ n = 0

\* the sign of Number(s) for a string s: "NaN" when s is no decimal literal,
\* else "neg", "zero" or "pos".  Blank strings convert to 0.
NumberSign(s) ==
  LET t == trim(s)
      neg == Len(t) > 0 /\ CharAt(t, 1) = "-"
      pos == Len(t) > 0 /\ CharAt(t, 1) = "+"
      r == IF neg \/ pos THEN SubSeq(t, 2, Len(t)) ELSE t
      whole == LeadingDigits(r)
      rest == SubSeq(r, Len(whole) + 1, Len(r))
      frac == IF Len(rest) > 0 /\ CharAt(rest, 1) = "."
              THEN SubSeq(rest, 2, Len(rest)) ELSE ""
      literal == /\ whole \o frac # ""
                 /\ rest = "" \/ (CharAt(rest, 1) = "." /\ LeadingDigits(frac) = frac)
      zero == \A i \in 1..Len(whole \o frac) : CharAt(whole \o frac, i) = "0"
  IN IF t = "" THEN "zero"
     ELSE IF ~literal THEN "NaN"
     ELSE IF zero THEN "zero"
     ELSE IF neg THEN "neg" ELSE "pos"

\* !id || isNaN(id) || id <= 0 for a route parameter
NotPositive(id) ==
  ~Truthy(id) \/ NumberSign(id) = "NaN" \/ NumberSign(id) \in {"neg", "zero"}

InvalidIdMessage == "ID inválido. Deve ser um número positivo"

\* what a service call leaves behind: the message and code of the Error it
\* threw ("" when it returned), the table it wrote and the value it returned
\* (<<>> for null)
Result(message, code, rows, out) ==
  [message |-> message, code |-> code, rows |-> rows, out |-> out]

\* what a controller answers
Answer(status, message, out) ==
  [status |-> status, message |-> message, out |-> out]

\* ------------------------------ subjects --------------------------------
SelectSubject(s) ==
  [id |-> s.id, nome |-> s.nome, ativa |-> s.ativa, professorId |-> s.professorId]

\* subjectService.getSubjectById
getSubjectById(subs, subjectId) ==
  IF NotPositive(subjectId) THEN Result(InvalidIdMessage, "", subs, <<>>)
  ELSE IF parseInt(subjectId) \notin DOMAIN subs THEN Result("", "", subs, <<>>)
  ELSE Result("", "", subs, <<SelectSubject(subs[parseInt(subjectId)])>>)

\* subjectService.validateSubjectData: "" when the data pass
validateSubjectData(subjectData) ==
  IF ~Truthy(subjectData.nome) THEN "Nome é obrigatório"
  ELSE IF Falsy(subjectData.professorId) \/ subjectData.professorId <= 0
  THEN "Professor ID é obrigatório e deve ser um número positivo"
  ELSE ""

\* subjectService.createSubject
createSubject(subs, us, id, subjectData) ==
  IF validateSubjectData(subjectData) # ""
  THEN Result(validateSubjectData(subjectData), "", subs, <<>>)
  ELSE IF subjectData.professorId \notin DOMAIN us
  THEN Result("Professor não encontrado", "", subs, <<>>)
  ELSE LET row == [id |-> id, nome |-> subjectData.nome,
                   professorId |-> subjectData.professorId,
                   ativa |-> IF subjectData.ativa # UNDEFINED
                             THEN subjectData.ativa ELSE "true"]
       IN Result("", "", Insert(subs, id, row), <<SelectSubject(row)>>)

\* subjectService.updateSubject
updateSubject(subs, us, subjectId, subjectData) ==
  IF NotPositive(subjectId) THEN Result(InvalidIdMessage, "", subs, <<>>)
  ELSE IF parseInt(subjectId) \notin DOMAIN subs
  THEN Result("Disciplina com ID " \o subjectId \o " não encontrada", "",
              subs, <<>>)
  ELSE IF ~Falsy(subjectData.professorId)
            /\ subjectData.professorId \notin DOMAIN us
  THEN Result("Professor não encontrado", "", subs, <<>>)
  ELSE LET old == subs[parseInt(subjectId)]
           row == [id |-> old.id,
                   nome |-> IF Truthy(subjectData.nome)
                            THEN subjectData.nome ELSE old.nome,
                   ativa |-> IF subjectData.ativa # UNDEFINED
                             THEN subjectData.ativa ELSE old.ativa,
                   professorId |-> IF ~Falsy(subjectData.professorId)
                                   THEN subjectData.professorId
                                   ELSE old.professorId]
       IN Result("", "", [subs EXCEPT ![old.id] = row], <<SelectSubject(row)>>)

\* a deleteSubject that returns the snapshot and deletes nothing
deleteSubject_KeepsRow(subs, subjectId) ==
  IF NotPositive(subjectId) THEN Result(InvalidIdMessage, "", subs, <<>>)
  ELSE IF parseInt(subjectId) \notin DOMAIN subs
  THEN Result("Disciplina com ID " \o subjectId \o " não encontrada", "",
              subs, <<>>)
  ELSE Result("", "", subs, <<SelectSubject(subs[parseInt(subjectId)])>>)

\* subjectService.deleteSubject
deleteSubject(subs, subjectId) ==
  IF NotPositive(subjectId) THEN Result(InvalidIdMessage, "", subs, <<>>)
  ELSE IF parseInt(subjectId) \notin DOMAIN subs
  THEN Result("Disciplina com ID " \o subjectId \o " não encontrada", "",
              subs, <<>>)
  ELSE Result("", "", Remove(subs, parseInt(subjectId)),
              <<SelectSubject(subs[parseInt(subjectId)])>>)

\* subjectController.getById
subjectController_getById(id, r) ==
  IF r.message = ""
  THEN IF r.out = <<>>
       THEN Answer(404, "Disciplina com ID " \o id \o " não encontrada", <<>>)
       ELSE Answer(200, "", r.out)
  ELSE IF Includes(r.message, "inválido") THEN Answer(400, r.message, <<>>)
  ELSE Answer(500, "Erro ao buscar disciplina", <<>>)

\* subjectController.create
subjectController_create(r) ==
  IF r.message = "" THEN Answer(201, "Disciplina criada com sucesso", r.out)
  ELSE IF \/ Includes(r.message, "obrigatório")
          \/ Includes(r.message, "obrigatórios")
          \/ Includes(r.message, "não encontrado")
  THEN Answer(400, r.message, <<>>)
  ELSE Answer(500, "Erro ao criar disciplina", <<>>)

\* subjectController.update
subjectController_update(r) ==
  IF r.message = "" THEN Answer(200, "Disciplina atualizada com sucesso", r.out)
  ELSE IF Includes(r.message, "inválido") \/ Includes(r.message, "não encontrado")
  THEN Answer(400, r.message, <<>>)
  ELSE IF Includes(r.message, "Disciplina com ID")
            /\ Includes(r.message, "não encontrada")
  THEN Answer(404, r.message, <<>>)
  ELSE Answer(500, "Erro ao atualizar disciplina", <<>>)

\* subjectController.remove
subjectController_remove(r) ==
  IF r.message = "" THEN Answer(200, "Disciplina removida com sucesso", r.out)
  ELSE IF Includes(r.message, "não encontrada") THEN Answer(404, r.message, <<>>)
  ELSE Answer(500, "Erro ao remover disciplina", <<>>)

\* ------------------------------ questions -------------------------------
SelectQuestion(q) ==
  [id |-> q.id, enunciado |-> q.enunciado, dificuldade |-> q.dificuldade,
   respostaCorreta |-> q.respostaCorreta, disciplinaId |-> q.disciplinaId,
   autorId |-> q.autorId, ativa |-> q.ativa]

\* questionService.getQuestionById
getQuestionById(qs, questionId) ==
  IF NotPositive(questionId) THEN Result(InvalidIdMessage, "", qs, <<>>)
  ELSE IF parseInt(questionId) \notin DOMAIN qs THEN Result("", "", qs, <<>>)
  ELSE Result("", "", qs, <<SelectQuestion(qs[parseInt(questionId)])>>)

enunciadoExists(qs, enunciado) ==
  \E i \in DOMAIN qs : qs[i].enunciado = enunciado

disciplinaExists(subs, disciplinaId) == disciplinaId \in DOMAIN subs

\* an autorExists that finds every author
autorExists_AnyAuthor(us, autorId) == TRUE

autorExists(us, autorId) == autorId \in DOMAIN us

\* a validateQuestionData that accepts every dificuldade
validateQuestionData_AnyDificuldade(questionData) ==
  IF \/ ~Truthy(questionData.enunciado) \/ Falsy(questionData.dificuldade)
     \/ Falsy(questionData.disciplinaId) \/ Falsy(questionData.autorId)
  THEN "Enunciado, dificuldade, id da disciplina e id do autor são obrigatórios"
  ELSE ""

\* questionService.validateQuestionData: "" when the data pass
validateQuestionData(questionData) ==
  IF \/ ~Truthy(questionData.enunciado) \/ Falsy(questionData.dificuldade)
     \/ Falsy(questionData.disciplinaId) \/ Falsy(questionData.autorId)
  THEN "Enunciado, dificuldade, id da disciplina e id do autor são obrigatórios"
  ELSE IF questionData.dificuldade < 1 \/ questionData.dificuldade > 5
  THEN "Dificuldade deve ser entre 1 e 5"
  ELSE ""

\* questionService.createQuestion
createQuestion(qs, subs, us, id, questionData) ==
  IF validateQuestionData(questionData) # ""
  THEN Result(validateQuestionData(questionData), "", qs, <<>>)
  ELSE IF enunciadoExists(qs, questionData.enunciado)
  THEN Result("Enunciado já cadastrado no sistema", "", qs, <<>>)
  ELSE IF ~disciplinaExists(subs, questionData.disciplinaId)
  THEN Result("Disciplina não encontrada", "", qs, <<>>)
  ELSE IF ~autorExists(us, questionData.autorId)
  THEN Result("Autor não encontrado", "", qs, <<>>)
  ELSE LET row == [id |-> id, enunciado |-> questionData.enunciado,
                   dificuldade |-> questionData.dificuldade,
                   respostaCorreta |-> questionData.respostaCorreta,
                   disciplinaId |-> questionData.disciplinaId,
                   autorId |-> questionData.autorId,
                   ativa |-> IF questionData.ativa \in {UNDEFINED, NULL}
                             THEN "true" ELSE questionData.ativa]
       IN Result("", "", Insert(qs, id, row), <<SelectQuestion(row)>>)

\* questionService.updateQuestion
updateQuestion(qs, subs, us, questionId, questionData) ==
  IF NotPositive(questionId) THEN Result(InvalidIdMessage, "", qs, <<>>)
  ELSE IF parseInt(questionId) \notin DOMAIN qs
  THEN Result("Questão com ID " \o questionId \o " não encontrada", "", qs, <<>>)
  ELSE IF ~Falsy(questionData.disciplinaId)
            /\ ~disciplinaExists(subs, questionData.disciplinaId)
  THEN Result("Disciplina não encontrada", "", qs, <<>>)
  ELSE IF ~Falsy(questionData.autorId) /\ ~autorExists(us, questionData.autorId)
  THEN Result("Autor não encontrado", "", qs, <<>>)
  ELSE IF /\ Truthy(questionData.enunciado)
          /\ questionData.enunciado # qs[parseInt(questionId)].enunciado
          /\ enunciadoExists(qs, questionData.enunciado)
  THEN Result("Enunciado já está em uso por outra questão", "", qs, <<>>)
  ELSE IF /\ ~Falsy(questionData.dificuldade)
          /\ (questionData.dificuldade < 1 \/ questionData.dificuldade > 5)
  THEN Result("Dificuldade deve ser entre 1 e 5", "", qs, <<>>)
  ELSE LET old == qs[parseInt(questionId)]
           row == [id |-> old.id,
                   enunciado |-> IF Truthy(questionData.enunciado)
                                 THEN questionData.enunciado ELSE old.enunciado,
                   dificuldade |-> IF ~Falsy(questionData.dificuldade)
                                   THEN questionData.dificuldade
                                   ELSE old.dificuldade,
                   respostaCorreta |-> IF Truthy(questionData.respostaCorreta)
                                       THEN questionData.respostaCorreta
                                       ELSE old.respostaCorreta,
                   disciplinaId |-> IF ~Falsy(questionData.disciplinaId)
                                    THEN questionData.disciplinaId
                                    ELSE old.disciplinaId,
                   autorId |-> IF ~Falsy(questionData.autorId)
                               THEN questionData.autorId ELSE old.autorId,
                   ativa |-> IF questionData.ativa # UNDEFINED
                             THEN questionData.ativa ELSE old.ativa]
       IN Result("", "", [qs EXCEPT ![old.id] = row], <<SelectQuestion(row)>>)

\* questionService.deleteQuestion
deleteQuestion(qs, questionId) ==
  IF NotPositive(questionId) THEN Result(InvalidIdMessage, "", qs, <<>>)
  ELSE IF parseInt(questionId) \notin DOMAIN qs
  THEN Result("Questão com ID " \o questionId \o " não encontrada", "", qs, <<>>)
  ELSE LET q == qs[parseInt(questionId)]
       IN Result("", "", Remove(qs, q.id),
                 <<[id |-> q.id, enunciado |-> q.enunciado,
                    dificuldade |-> q.dificuldade,
                    respostaCorreta |-> q.respostaCorreta,
                    disciplinaId |-> q.disciplinaId, autorId |-> q.autorId]>>)

\* questionController.getById
questionController_getById(id, r) ==
  IF r.message = ""
  THEN IF r.out = <<>>
       THEN Answer(404, "Questão com ID " \o id \o " não encontrada", <<>>)
       ELSE Answer(200, "", r.out)
  ELSE IF Includes(r.message, "inválido") THEN Answer(400, r.message, <<>>)
  ELSE Answer(500, "Erro ao buscar questão", <<>>)

\* questionController.create
questionController_create(r) ==
  IF r.message = "" THEN Answer(201, "Questão criada com sucesso", r.out)
  ELSE IF \/ Includes(r.message, "obrigatórios")
          \/ Includes(r.message, "já cadastrado")
          \/ Includes(r.message, "Dificuldade deve ser")
          \/ Includes(r.message, "não encontrada")
          \/ Includes(r.message, "não encontrado")
          \/ Includes(r.message, "Disciplina não encontrada")
          \/ Includes(r.message, "Autor não encontrado")
  THEN Answer(400, r.message, <<>>)
  ELSE Answer(500, "Erro ao criar questão", <<>>)

\* questionController.update
questionController_update(r) ==
  IF r.message = "" THEN Answer(200, "Questão atualizada com sucesso", r.out)
  ELSE IF \/ Includes(r.message, "já está em uso")
          \/ Includes(r.message, "Dificuldade deve ser")
          \/ Includes(r.message, "Disciplina não encontrada")
          \/ Includes(r.message, "Autor não encontrado")
  THEN Answer(400, r.message, <<>>)
  ELSE IF r.code = "P2003"
  THEN Answer(400, "Disciplina ou autor não encontrado", <<>>)
  ELSE IF Includes(r.message, "não encontrada") THEN Answer(404, r.message, <<>>)
  ELSE Answer(500, "Erro ao atualizar questão", <<>>)

\* questionController.remove
questionController_remove(r) ==
  IF r.message = "" THEN Answer(200, "Questão removida com sucesso", r.out)
  ELSE IF Includes(r.message, "não encontrada") THEN Answer(404, r.message, <<>>)
  ELSE Answer(500, "Erro ao remover questão", <<>>)

(***************************************************************************)
(* Routes.  A route is the sequence of middleware stages in front of its   *)
(* controller.  The stages of a request run in order until one of them     *)
(* hands an error to next(error).                                          *)
(***************************************************************************)
Stage(name, ctx, sgn, clock) ==
  CASE name = "authMiddleware" -> authMiddleware(ctx, sgn, clock)
    [] name = "isAdmin" -> isAdmin(ctx)
    [] name = "isOwnerOrAdmin" -> isOwnerOrAdmin("id", ctx)
    [] name = "upload" -> uploadSingle(ctx)
    [] name = "idParamSchema" -> validate(idParamSchema(ctx.params), "params", ctx)
    [] name = "createUserSchema" -> validate(createUserSchema(ctx.body), "body", ctx)
    [] name = "updateUserSchema" -> validate(updateUserSchema(ctx.body), "body", ctx)

RECURSIVE RunChain(_, _, _, _)
RunChain(stages, ctx, sgn, clock) ==
  IF stages = <<>> \/ ctx.err # NoError THEN ctx
  ELSE RunChain(Tail(stages),
                Stage(Head(stages),
                      [ctx EXCEPT !.ran = Append(ctx.ran, Head(stages))],
                      sgn, clock),
                sgn, clock)

\* api/v2/routes/userRoutes.js, protected revision
PostUserChain == <<"authMiddleware", "isAdmin", "upload", "createUserSchema">>

PutUserChain ==
  <<"authMiddleware", "idParamSchema", "isOwnerOrAdmin", "upload",
    "updateUserSchema">>

DeleteUserChain == <<"authMiddleware", "isAdmin", "idParamSchema">>

GetUserChain == <<"idParamSchema">>

\* api/v2/routes/userRoutes.js, revision without authentication
OpenPostUserChain == <<"upload", "createUserSchema">>

OpenPutUserChain == <<"idParamSchema", "upload", "updateUserSchema">>

NoParams == [id |-> UNDEFINED]

NoBody == [none |-> UNDEFINED]

NewContext(authorization, params, body) ==
  [authorization |-> authorization, params |-> params, body |-> body,
   user |-> NoUser, err |-> NoError, ran |-> <<>>]

(***************************************************************************)
(* State.                                                                  *)
(*   users   the credential store                                          *)
(*   nextId  the next autoincrement id                                     *)
(*   signed  the payloads of the tokens the server has issued              *)
(*   now     the clock, in hours                                           *)
(*   last    the exchange in progress: what was sent, the stages the       *)
(*           request entered, the identity attached, the store before it   *)
(*           and the response; Idle between two exchanges                  *)
(***************************************************************************)
VARIABLES users, nextId, signed, now, last,
          subjects, questions, nextSubject, nextQuestion, pending

\* the subjects and questions tables with their autoincrement counters
exam == <<subjects, questions, nextSubject, nextQuestion>>

vars == <<users, nextId, signed, now, last, exam, pending>>

MaxId == 2

MaxClock == 1

EmptyStore == [i \in {} |-> NULL]

Idle ==
  [route |-> "", authorization |-> UNDEFINED, params |-> NoParams,
   body |-> NoBody, ran |-> <<>>, user |-> NoUser, before |-> EmptyStore,
   subjectsBefore |-> EmptyStore, questionsBefore |-> EmptyStore,
   req |-> [params |-> NoParams, body |-> NoBody], details |-> {},
   answeredBy |-> "", status |-> 0, code |-> "", message |-> "", out |-> <<>>, token |-> ""]

\* the requests the server can be handling at once, and a slot without one
Requests == {"first", "second"}

NoRequest == [pc |-> "idle", kind |-> "", data |-> <<>>, status |-> 0, code |-> ""]

Init ==
  /\ pending = [r \in Requests |-> NoRequest]
  /\ users = EmptyStore
  /\ nextId = 1
  /\ signed = {}
  /\ now = 0
  /\ last = Idle
  /\ subjects = EmptyStore
  /\ questions = EmptyStore
  /\ nextSubject = 1
  /\ nextQuestion = 1

\* the terminal error handler answers with the status and code of the error;
\* a controller that ran answers okStatus with the records of the service
Response(route, sent, ctx, outc, okStatus) ==
  LET err == IF ctx.err # NoError THEN ctx.err ELSE outc.err IN
  [route |-> route, authorization |-> sent.authorization,
   params |-> sent.params, body |-> sent.body,
   ran |-> IF ctx.err = NoError THEN Append(ctx.ran, "controller") ELSE ctx.ran,
   user |-> ctx.user, before |-> users,
   subjectsBefore |-> subjects, questionsBefore |-> questions,
   status |-> IF err = NoError THEN okStatus ELSE err.status,
   req |-> [params |-> ctx.params, body |-> ctx.body],
   details |-> err.details,
   answeredBy |-> IF err = NoError THEN "controller"
                  ELSE IF err = RouteNotFound THEN "notFound"
                  ELSE "errorHandler",
   code |-> err.code, message |-> err.message,
   out |-> IF err = NoError THEN outc.out ELSE <<>>,
   token |-> IF err = NoError THEN outc.token ELSE ""]

\* a request that passed through `chain`; the controller calls the service
\* only when no stage failed
Handle(route, chain, sent, okStatus, Service(_)) ==
  LET ctx == RunChain(chain, sent, signed, now)
      outc == IF ctx.err = NoError THEN Service(ctx)
              ELSE Outcome(ctx.err, users, <<>>, "")
      created == outc.err = NoError /\ DOMAIN outc.users # DOMAIN users
                   /\ nextId \in DOMAIN outc.users
  IN /\ users' = outc.users
     /\ nextId' = IF created THEN nextId + 1 ELSE nextId
     /\ last' = Response(route, sent, ctx, outc, okStatus)
     /\ UNCHANGED <<signed, now, exam, pending>>

(***************************************************************************)
(* Requests.                                                               *)
(***************************************************************************)
U == UNDEFINED

RegisterBody(nome, pn, sn, email, senha, papel, telefone, foto) ==
  [nome |-> nome, primeiro_nome |-> pn, sobrenome |-> sn, email |-> email,
   senha |-> senha, papel |-> papel, telefone |-> telefone, foto |-> foto]

UserBody(pn, sn, email, senha, tipo, telefone, foto) ==
  [primeiro_nome |-> pn, sobrenome |-> sn, email |-> email, senha |-> senha,
   tipo_usuario |-> tipo, telefone |-> telefone, foto |-> foto]

\* POST /v2/auth/register: AuthController.register
Register(bodies) ==
  \E body \in bodies :
    LET sent == NewContext(U, NoParams, body)
        parsed == registerSchema(body)
        outc == IF parsed.success THEN register(users, nextId, parsed.data, now)
                ELSE Outcome(AppError("Dados de entrada inválidos", 400,
                                      "VALIDATION_ERROR"), users, <<>>, "")
        ctx == [sent EXCEPT !.ran = <<>>]
    IN /\ last = Idle
       /\ nextId <= MaxId
       /\ users' = outc.users
       /\ nextId' = IF outc.err = NoError THEN nextId + 1 ELSE nextId
       /\ signed' = IF outc.err = NoError
                    THEN signed \cup {TokenPayload(outc.users[nextId], now)}
                    ELSE signed
       /\ last' = Response("POST /v2/auth/register", sent, ctx, outc, 201)
       /\ UNCHANGED <<now, exam, pending>>

LoginBody(email, senha) == [email |-> email, senha |-> senha]

\* POST /v2/auth/login: AuthController.login
Login(bodies) ==
  \E body \in bodies :
    LET sent == NewContext(U, NoParams, body)
        parsed == loginSchema(body)
        outc == IF parsed.success
                THEN login(users, parsed.data.email, parsed.data.senha, now)
                ELSE Outcome(AppError("Dados de entrada inválidos", 400,
                                      "VALIDATION_ERROR"), users, <<>>, "")
        ctx == [sent EXCEPT !.ran = <<>>]
    IN /\ last = Idle
       /\ signed' = IF outc.err = NoError
                    THEN signed \cup {TokenPayload(outc.out[1], now)}
                    ELSE signed
       /\ last' = Response("POST /v2/auth/login", sent, ctx, outc, 200)
       /\ UNCHANGED <<users, nextId, now, exam, pending>>

\* the Authorization headers a client can send: none, a string the server
\* never signed, or a token the server issued
Headers ==
  {U, "Bearer forged"} \cup {"Bearer " \o Encode(p) : p \in signed}

\* GET /v2/auth/me in the two revisions of the repository: authRoutes.js,
\* where the route is commented out and the request falls through to the 404
\* middleware, and the revision of AuthController.me that reads req.user.id
\* behind authMiddleware
Me(headers, revisions) ==
  \E h \in headers, revision \in revisions :
    LET sent == NewContext(h, NoParams, NoBody) IN
    /\ last = Idle
    /\ IF revision = "authRoutes.js"
       THEN /\ last' = Response("GET /v2/auth/me", sent,
                                Fail(sent, RouteNotFound),
                                Outcome(NoError, users, <<>>, ""), 200)
            /\ UNCHANGED <<users, nextId, signed, now, exam, pending>>
       ELSE Handle("GET /v2/auth/me", <<"authMiddleware">>, sent, 200,
                   LAMBDA ctx : findById(users, ctx.user.id))

\* POST /v2/users
PostUser(chain, headers, bodies) ==
  \E h \in headers, body \in bodies :
    /\ last = Idle
    /\ nextId <= MaxId
    /\ Handle("POST /v2/users", chain, NewContext(h, NoParams, body), 201,
              LAMBDA ctx : createUser(users, nextId, ctx.body))

\* PUT /v2/users/:id
PutUser(chain, headers, ids, bodies) ==
  \E h \in headers, id \in ids, body \in bodies :
    /\ last = Idle
    /\ Handle("PUT /v2/users/:id", chain, NewContext(h, [id |-> id], body),
              200,
              LAMBDA ctx : updateUser(users, parseInt(ctx.params.id), ctx.body))

\* DELETE /v2/users/:id
DeleteUser(headers, ids) ==
  \E h \in headers, id \in ids :
    /\ last = Idle
    /\ Handle("DELETE /v2/users/:id", DeleteUserChain,
              NewContext(h, [id |-> id], NoBody), 200,
              LAMBDA ctx : deleteUser(users, parseInt(ctx.params.id)))

\* GET /v2/users
GetUsers ==
  /\ last = Idle
  /\ Handle("GET /v2/users", <<>>, NewContext(U, NoParams, NoBody), 200,
            LAMBDA ctx : getAllUsers(users))

\* GET /v2/users/:id
GetUser(ids) ==
  \E id \in ids :
    /\ last = Idle
    /\ Handle("GET /v2/users/:id", GetUserChain,
              NewContext(U, [id |-> id], NoBody), 200,
              LAMBDA ctx : getUserById(users, parseInt(ctx.params.id)))

\* the response has been sent: the exchange is over
Deliver ==
  /\ last # Idle
  /\ last' = Idle
  /\ UNCHANGED <<users, nextId, signed, now, exam, pending>>

\* an hour passes
Tick ==
  /\ last = Idle
  /\ now < MaxClock
  /\ now' = now + 1
  /\ UNCHANGED <<users, nextId, signed, last, exam, pending>>

(***************************************************************************)
(* Spec: the protected /v2/users routes and /v2/auth/register, with two    *)
(* e-mail addresses so that two accounts can exist side by side.           *)
(***************************************************************************)
Emails == {"a@x.co", "b@x.co"}

Phone == "11999999999"

Photo == "https://cdn.co/1"

RegBodies ==
  {RegisterBody("Li Wu", U, U, e, "Senha123", p, U, U) :
     e \in Emails, p \in {U, "ADMIN"}}

CreateBodies ==
  {UserBody("Ana", "Sa", e, "senha123", t, U, U) :
     e \in Emails, t \in {U, "admin"}}
  \cup {UserBody("Ana", U, "a@x.co", "senha123", U, U, U)}

UpdateBodies ==
  {UserBody(U, U, U, U, U, Phone, U),
   UserBody(U, U, U, U, "admin", U, U),
   UserBody(U, U, "b@x.co", U, U, U, U),
   UserBody(U, U, U, U, "ADMIN", U, U)}

IdParams == {ToString(i) : i \in 1..MaxId} \cup {"abc"}

Next ==
  \/ Register(RegBodies)
  \/ PostUser(PostUserChain, Headers, CreateBodies)
  \/ PutUser(PutUserChain, Headers, IdParams, UpdateBodies)
  \/ DeleteUser(Headers, IdParams)
  \/ GetUsers
  \/ GetUser(IdParams)
  \/ Deliver

Spec == Init /\ [][Next]_vars

(***************************************************************************)
(* SpecFields: one account, every field.  Registration and the /v2/users   *)
(* routes of the revision without authentication, with bodies that vary    *)
(* each field of the two representations; a single e-mail address keeps    *)
(* the store at one row.                                                   *)
(***************************************************************************)
Blank == "  "

FieldRegBodies ==
  {RegisterBody(n, pn, sn, "a@x.co", pw, p, t, U) :
     n \in {U, "Li Wu"}, pn \in {U, "Ana"}, sn \in {U, "Sa"},
     pw \in {"Senha123"}, p \in {U, "ADMIN"}, t \in {U, Phone}}
  \cup {RegisterBody("Li Wu", U, U, "a@x.co", "senha123", U, U, U)}

FieldCreateBodies ==
  {UserBody(pn, "Sa", "a@x.co", "senha123", t, tel, f) :
     pn \in {"Ana", Blank}, t \in {U, "admin"}, tel \in {U, Phone},
     f \in {U, Photo}}
  \cup {UserBody("Ana", "Sa", "a@x.co", "senha123", "ADMIN", U, U)}

FieldUpdateBodies ==
  {UserBody(pn, sn, U, pw, t, tel, U) :
     pn \in {U, "Bia"}, sn \in {U, "Bo", Blank}, pw \in {U, "senha456"},
     t \in {U, "admin", "professor"}, tel \in {U, Phone}}

FieldIds == {"1", "2"}

NextFields ==
  \/ Register(FieldRegBodies)
  \/ PostUser(OpenPostUserChain, {U}, FieldCreateBodies)
  \/ PutUser(OpenPutUserChain, {U}, FieldIds, FieldUpdateBodies)
  \/ GetUsers
  \/ GetUser(FieldIds)
  \/ Deliver

SpecFields == Init /\ [][NextFields]_vars

(***************************************************************************)
(* SpecAuth: /v2/auth/register and /v2/auth/login next to the open         *)
(* /v2/users routes, with an address written in two letter cases, while    *)
(* the clock advances.                                                     *)
(***************************************************************************)
AuthEmails == {"a@x.co", "A@x.co"}

AuthRegBodies ==
  {RegisterBody("Li Wu", U, U, e, "Senha123", papel, U, U) :
     e \in AuthEmails, papel \in {U, "ADMIN"}}

AuthCreateBodies ==
  {UserBody("Ana", "Sa", e, "senha123", U, U, U) : e \in AuthEmails}

AuthUpdateBodies ==
  {UserBody(U, U, e, U, tipo, U, U) :
     e \in AuthEmails \cup {U}, tipo \in {U, "admin"}}

LoginBodies ==
  {LoginBody(e, senha) : e \in AuthEmails, senha \in {"Senha123", "senha123"}}
  \cup {LoginBody("a@x.co", ""), LoginBody("nobody", "Senha123")}

MeRevisions == {"authRoutes.js", "part_005"}

NextAuth ==
  \/ Register(AuthRegBodies)
  \/ Login(LoginBodies)
  \/ Me(Headers, MeRevisions)
  \/ PostUser(OpenPostUserChain, {U}, AuthCreateBodies)
  \/ PutUser(OpenPutUserChain, {U}, FieldIds, AuthUpdateBodies)
  \/ Tick
  \/ Deliver

SpecAuth == Init /\ [][NextAuth]_vars

(***************************************************************************)
(* Requests on /subjects and /questions.  The routers put no middleware in *)
(* front of the controllers (routes/subjectRoutes.js).                     *)
(***************************************************************************)
MaxRows == 2

\* what the store does with the rows that reference a row being deleted: the
\* relations' referential action, one of the two a required relation allows
ReferentialActions == {"Restrict", "Cascade"}

\* the error of a DELETE the store refused
ForeignKeyError(rows) ==
  Result("Foreign key constraint failed", "P2003", rows, <<>>)

SubjectBody(nome, professorId, ativa) ==
  [nome |-> nome, professorId |-> professorId, ativa |-> ativa]

QuestionBody(enunciado, dificuldade, resposta, disciplinaId, autorId, ativa) ==
  [enunciado |-> enunciado, dificuldade |-> dificuldade,
   respostaCorreta |-> resposta, disciplinaId |-> disciplinaId,
   autorId |-> autorId, ativa |-> ativa]

\* the exchange of a request a controller answered by itself
Answered(route, params, body, ans) ==
  [route |-> route, authorization |-> UNDEFINED, params |-> params,
   body |-> body, ran |-> <<"controller">>, user |-> NoUser,
   before |-> users, subjectsBefore |-> subjects,
   questionsBefore |-> questions,
   req |-> [params |-> params, body |-> body], details |-> {},
   answeredBy |-> "controller", status |-> ans.status, code |-> "",
   message |-> ans.message, out |-> ans.out, token |-> ""]

QuestionsOf(qs, subjectIds, authorIds) ==
  {i \in DOMAIN qs :
     qs[i].disciplinaId \in subjectIds \/ qs[i].autorId \in authorIds}

SubjectsOf(subs, professorIds) ==
  {i \in DOMAIN subs : subs[i].professorId \in professorIds}

Without(rows, ids) == [i \in DOMAIN rows \ ids |-> rows[i]]

\* GET /subjects/:id
GetSubject(ids) ==
  \E id \in ids :
    LET r == getSubjectById(subjects, id) IN
    /\ last = Idle
    /\ last' = Answered("GET /subjects/:id", [id |-> id], NoBody,
                        subjectController_getById(id, r))
    /\ UNCHANGED <<users, nextId, signed, now, exam, pending>>

\* POST /subjects
CreateSubject(bodies) ==
  \E body \in bodies :
    LET r == createSubject(subjects, users, nextSubject, body) IN
    /\ last = Idle
    /\ nextSubject <= MaxRows
    /\ subjects' = r.rows
    /\ nextSubject' = IF r.message = "" THEN nextSubject + 1 ELSE nextSubject
    /\ last' = Answered("POST /subjects", NoParams, body,
                        subjectController_create(r))
    /\ UNCHANGED <<users, nextId, signed, now, questions, nextQuestion, pending>>

\* PUT /subjects/:id
UpdateSubject(ids, bodies) ==
  \E id \in ids, body \in bodies :
    LET r == updateSubject(subjects, users, id, body) IN
    /\ last = Idle
    /\ subjects' = r.rows
    /\ last' = Answered("PUT /subjects/:id", [id |-> id], body,
                        subjectController_update(r))
    /\ UNCHANGED <<users, nextId, signed, now, questions, nextSubject,
                   nextQuestion, pending>>

\* DELETE /subjects/:id
DeleteSubject(ids) ==
  \E id \in ids, action \in ReferentialActions :
    LET found == deleteSubject(subjects, id)
        orphans == QuestionsOf(questions, {parseInt(id)}, {})
        r == IF found.message = "" /\ orphans # {} /\ action = "Restrict"
             THEN ForeignKeyError(subjects) ELSE found
    IN /\ last = Idle
       /\ subjects' = r.rows
       /\ questions' = IF r.message = "" /\ found.out # <<>>
                       THEN Without(questions, orphans) ELSE questions
       /\ last' = Answered("DELETE /subjects/:id", [id |-> id], NoBody,
                           subjectController_remove(r))
       /\ UNCHANGED <<users, nextId, signed, now, nextSubject, nextQuestion, pending>>

\* GET /questions/:id
GetQuestion(ids) ==
  \E id \in ids :
    LET r == getQuestionById(questions, id) IN
    /\ last = Idle
    /\ last' = Answered("GET /questions/:id", [id |-> id], NoBody,
                        questionController_getById(id, r))
    /\ UNCHANGED <<users, nextId, signed, now, exam, pending>>

\* POST /questions
CreateQuestion(bodies) ==
  \E body \in bodies :
    LET r == createQuestion(questions, subjects, users, nextQuestion, body) IN
    /\ last = Idle
    /\ nextQuestion <= MaxRows
    /\ questions' = r.rows
    /\ nextQuestion' = IF r.message = "" THEN nextQuestion + 1 ELSE nextQuestion
    /\ last' = Answered("POST /questions", NoParams, body,
                        questionController_create(r))
    /\ UNCHANGED <<users, nextId, signed, now, subjects, nextSubject, pending>>

\* PUT /questions/:id
UpdateQuestion(ids, bodies) ==
  \E id \in ids, body \in bodies :
    LET r == updateQuestion(questions, subjects, users, id, body) IN
    /\ last = Idle
    /\ questions' = r.rows
    /\ last' = Answered("PUT /questions/:id", [id |-> id], body,
                        questionController_update(r))
    /\ UNCHANGED <<users, nextId, signed, now, subjects, nextSubject,
                   nextQuestion, pending>>

\* DELETE /questions/:id
DeleteQuestion(ids) ==
  \E id \in ids :
    LET r == deleteQuestion(questions, id) IN
    /\ last = Idle
    /\ questions' = r.rows
    /\ last' = Answered("DELETE /questions/:id", [id |-> id], NoBody,
                        questionController_remove(r))
    /\ UNCHANGED <<users, nextId, signed, now, subjects, nextSubject,
                   nextQuestion, pending>>

\* DELETE /v2/users/:id of a user that subjects or questions may reference
DeleteReferencedUser(headers, ids) ==
  \E h \in headers, id \in ids, action \in ReferentialActions :
    LET sent == NewContext(h, [id |-> id], NoBody)
        ctx == RunChain(DeleteUserChain, sent, signed, now)
        found == IF ctx.err = NoError
                 THEN deleteUser(users, parseInt(ctx.params.id))
                 ELSE Outcome(ctx.err, users, <<>>, "")
        taught == SubjectsOf(subjects, {parseInt(id)})
        orphans == QuestionsOf(questions, taught, {parseInt(id)})
        outc == IF found.err = NoError /\ taught \cup orphans # {}
                     /\ action = "Restrict"
                THEN Outcome(InternalError, users, <<>>, "")
                ELSE found
    IN /\ last = Idle
       /\ users' = outc.users
       /\ subjects' = IF outc.err = NoError
                      THEN Without(subjects, taught) ELSE subjects
       /\ questions' = IF outc.err = NoError
                       THEN Without(questions, orphans) ELSE questions
       /\ last' = Response("DELETE /v2/users/:id", sent, ctx, outc, 200)
       /\ UNCHANGED <<nextId, signed, now, nextSubject, nextQuestion, pending>>

(***************************************************************************)
(* SpecExam: one registered administrator, the subjects they teach and the *)
(* questions written for them.                                             *)
(***************************************************************************)
ExamRegBodies == {RegisterBody("Li Wu", U, U, "a@x.co", "Senha123", "ADMIN", U, U)}

ExamHeaders == {U} \cup {"Bearer " \o Encode(p) : p \in signed}

ExamIds == {"1", "2", "abc", "0", "-1", "1.5"}

UserIds == {"1", "2"}

SubjectBodies ==
  {SubjectBody(n, p, U) : n \in {U, "Calc"}, p \in {ABSENT, 0, 1, 2}}

QuestionCreateBodies ==
  {QuestionBody("2+2?", d, "4", s, a, U) :
     d \in 0..6, s \in {1, 2}, a \in {1, 2}}

QuestionUpdateBodies ==
  {QuestionBody(U, d, U, s, a, U) :
     d \in {ABSENT, 0, 3, 6}, s \in {ABSENT, 0, 2}, a \in {ABSENT, 2}}

NextExam ==
  \/ Register(ExamRegBodies)
  \/ DeleteReferencedUser(ExamHeaders, UserIds)
  \/ GetUser(UserIds)
  \/ CreateSubject(SubjectBodies)
  \/ UpdateSubject(ExamIds, SubjectBodies)
  \/ DeleteSubject(ExamIds)
  \/ GetSubject(ExamIds)
  \/ CreateQuestion(QuestionCreateBodies)
  \/ UpdateQuestion(ExamIds, QuestionUpdateBodies)
  \/ DeleteQuestion(ExamIds)
  \/ GetQuestion(ExamIds)
  \/ Deliver

SpecExam == Init /\ [][NextExam]_vars

(***************************************************************************)
(* SpecSession: an administrator and a professor who register, log in,     *)
(* change passwords and roles and are deleted, while the clock advances    *)
(* past the expiry of the tokens issued.                                   *)
(***************************************************************************)
SessionRegBodies ==
  {RegisterBody("Li Wu", U, U, "a@x.co", "Senha123", "ADMIN", U, U),
   RegisterBody("Bo Li", U, U, "b@x.co", "Senha123", U, U, U)}

SessionLoginBodies ==
  {LoginBody(e, senha) : e \in Emails, senha \in {"Senha123", "Nova1234"}}

SessionCreateBodies == {UserBody("Ana", "Sa", "b@x.co", "Nova1234", U, U, U)}

SessionUpdateBodies ==
  {UserBody(U, U, U, U, "admin", U, U), UserBody(U, U, U, "Nova1234", U, U, U)}

SessionIds == {ToString(i) : i \in 1..MaxId}

NextSession ==
  \/ Register(SessionRegBodies)
  \/ Login(SessionLoginBodies)
  \/ PostUser(PostUserChain, Headers, SessionCreateBodies)
  \/ PutUser(PutUserChain, Headers, SessionIds, SessionUpdateBodies)
  \/ DeleteUser(Headers, SessionIds)
  \/ Tick
  \/ Deliver

SpecSession == Init /\ [][NextSession]_vars

(***************************************************************************)
(* SpecRace: two requests handled at once.  AuthService.register and       *)
(* userService.createUser each await the existence query and, in a later   *)
(* turn of the event loop, the insert; the other request's store calls     *)
(* can fall between the two.  The User table carries a unique index on     *)
(* email, so an insert of an address that is already stored is rejected by *)
(* the store; neither service catches that rejection, and it reaches the   *)
(* error handler as a store failure.                                       *)
(***************************************************************************)
UniqueViolation == InternalError

RaceKinds == {"register", "createUser"}

RaceBodies(kind) ==
  IF kind = "register"
  THEN {RegisterBody("Li Wu", U, U, e, "Senha123", U, U, U) : e \in Emails}
  ELSE {UserBody("Ana", "Sa", e, "Nova1234", U, U, U) : e \in Emails}

ParseOfKind(kind, body) ==
  IF kind = "register" THEN registerSchema(body) ELSE createUserSchema(body)

\* the service as it runs when nothing falls between its two store calls
Sequential(kind, us, id, data, clock) ==
  IF kind = "register" THEN register(us, id, data, clock)
  ELSE createUser(us, id, data)

Settled(kind, data, status, code) ==
  [pc |-> "done", kind |-> kind, data |-> data, status |-> status, code |-> code]

\* the first store call: prisma.user.findUnique({where: {email}})
PreCheck ==
  \E r \in Requests, kind \in RaceKinds :
    \E body \in RaceBodies(kind) :
      LET parsed == ParseOfKind(kind, body)
          outc == Sequential(kind, users, nextId, parsed.data, now)
      IN /\ pending[r].pc = "idle"
         /\ nextId <= MaxId
         /\ parsed.success
         /\ pending' =
              [pending EXCEPT ![r] =
                 IF emailExists(users, parsed.data.email)
                 THEN Settled(kind, parsed.data, outc.err.status, outc.err.code)
                 ELSE [pc |-> "checked", kind |-> kind, data |-> parsed.data,
                       status |-> 0, code |-> ""]]
         /\ UNCHANGED <<users, nextId, signed, now, last, exam>>

\* the second store call: prisma.user.create({data})
InsertUser(r) ==
  LET req == pending[r]
      outc == Sequential(req.kind, users, nextId, req.data, now)
  IN /\ req.pc = "checked"
     /\ nextId <= MaxId
     /\ IF emailExists(users, req.data.email)
        THEN /\ pending' = [pending EXCEPT ![r] =
                              Settled(req.kind, req.data, UniqueViolation.status,
                                      UniqueViolation.code)]
             /\ UNCHANGED <<users, nextId, signed>>
        ELSE /\ users' = outc.users
             /\ nextId' = nextId + 1
             /\ signed' = IF req.kind = "register"
                          THEN signed \cup {TokenPayload(outc.users[nextId], now)}
                          ELSE signed
             /\ pending' = [pending EXCEPT ![r] =
                              Settled(req.kind, req.data, 201, "")]
     /\ UNCHANGED <<now, last, exam>>

CreateRow == \E r \in Requests : InsertUser(r)

\* the answer leaves and the slot is free for the next request
Reply ==
  \E r \in Requests :
    /\ pending[r].pc = "done"
    /\ pending' = [pending EXCEPT ![r] = NoRequest]
    /\ UNCHANGED <<users, nextId, signed, now, last, exam>>

NextRace ==
  \/ PreCheck
  \/ CreateRow
  \/ Reply
  \/ Tick

SpecRace == Init /\ [][NextRace]_vars

(***************************************************************************)
(* SpecMw: the three gates applied on their own.  Tokens are issued by     *)
(* registration, the clock advances, and a request presents every shape    *)
(* of Authorization header to a route guarded by authMiddleware alone;     *)
(* authorize and isOwnerOrAdmin are applied to requests that carry any     *)
(* identity (or none) of a bounded set.                                    *)
(***************************************************************************)
Passed(ctx) == Outcome(NoError, users, <<>>, "")

\* every way of writing a header around the token string t
HeaderShapes(t) ==
  {"Bearer " \o t, "bearer " \o t, "BEARER " \o t, "Bearer  " \o t,
   "Bearer" \o t, "Basic " \o t, "Bearer " \o t \o " x", " Bearer " \o t, t}

MwHeaders ==
  {U, "", "Bearer", "Bearer ", "Bearer forged"}
  \cup UNION {HeaderShapes(Encode(p)) : p \in signed}

\* a route whose only middleware is authMiddleware
AuthRequest ==
  \E h \in MwHeaders :
    /\ last = Idle
    /\ Handle("authMiddleware", <<"authMiddleware">>,
              NewContext(h, NoParams, NoBody), 200, Passed)

Spellings == {"ADMIN", "admin", "Admin", "PROFESSOR", "professor", "Professor"}

Identities ==
  {NoUser} \cup {[id |-> i, email |-> "a@x.co", role |-> r] :
                   i \in 1..MaxId, r \in Spellings \cup {U}}

RoleLists ==
  {<<>>, <<"ADMIN">>, <<"PROFESSOR", "ADMIN">>, <<"admin">>, <<"Professor">>}

ParamIds == {"1", "2", "2abc", "abc", "-1", " 1", "1.5", "01"}

\* the gate applied to a request as the earlier stages left it
Gate(route, sent, after) ==
  /\ last' = Response(route, sent,
                      [after EXCEPT !.ran = <<route>>], Passed(after), 200)
  /\ UNCHANGED <<users, nextId, signed, now, exam, pending>>

\* authorize(allowedRoles) on a request with identity user
AuthorizeRequest ==
  \E user \in Identities, allowedRoles \in RoleLists :
    LET sent == [NewContext(U, NoParams, [allowedRoles |-> allowedRoles])
                   EXCEPT !.user = user]
    IN /\ last = Idle
       /\ Gate("authorize", sent, authorize(allowedRoles, sent))

\* isOwnerOrAdmin('id') on a request with identity user and parameter id
OwnerRequest ==
  \E user \in Identities, id \in ParamIds :
    LET sent == [NewContext(U, [id |-> id], NoBody) EXCEPT !.user = user]
    IN /\ last = Idle
       /\ Gate("isOwnerOrAdmin", sent, isOwnerOrAdmin("id", sent))

NextMw ==
  \/ Register(RegBodies)
  \/ Tick
  \/ AuthRequest
  \/ AuthorizeRequest
  \/ OwnerRequest
  \/ Deliver

SpecMw == Init /\ [][NextMw]_vars

(***************************************************************************)
(* Properties.                                                             *)
(***************************************************************************)
Range(seq) == {seq[i] : i \in 1..Len(seq)}

Mutating ==
  last.route \in {"POST /v2/users", "PUT /v2/users/:id", "DELETE /v2/users/:id"}

\* the id the route parameter names, when it is the decimal form of an id
NumericId == last.params.id \in {ToString(i) : i \in 1..MaxId}

TargetId == parseInt(last.params.id)

\* a PUT that reaches the service finds its row and no e-mail conflict
UpdateApplies ==
  /\ NumericId
  /\ TargetId \in DOMAIN last.before
  /\ updateUserSchema(last.body).success
  /\ LET email == updateUserSchema(last.body).data.email
     IN ~(/\ Truthy(email)
          /\ email # last.before[TargetId].email
          /\ emailExists(last.before, email))

\* a POST that reaches the service finds the e-mail free
CreateApplies ==
  /\ createUserSchema(last.body).success
  /\ ~emailExists(last.before, createUserSchema(last.body).data.email)

RejectedAtAuth ==
  /\ last.status = 401
  /\ last.code = "UNAUTHORIZED"
  /\ last.user = NoUser
  /\ last.ran = <<"authMiddleware">>

\* the request went on to the next handler as the holder of payload p
AcceptedAs(p) ==
  /\ last.status = 200
  /\ last.user = [id |-> p.sub, email |-> p.email, role |-> p.role]
  /\ last.ran = <<"authMiddleware", "controller">>

\* C2: authMiddleware rejects with 401 UNAUTHORIZED, attaches no req.user
\* and runs no downstream handler when the Authorization header is absent
\* or empty, does not split on a single space into exactly two parts, has a
\* first part that is not "Bearer" in any letter case, or carries a token
\* that fails verification; otherwise it sets req.user to {id: sub, email,
\* role} of the token and the next handler runs.
C2_AuthHeader ==
  last.route = "authMiddleware" =>
    LET h == last.authorization
        parts == split(h, " ")
        live == {p \in signed : now < p.exp}
    IN /\ IF \/ h \in {U, ""}
             \/ Len(parts) # 2
             \/ toLowerCase(parts[1]) # "bearer"
             \/ ~verifyToken(parts[2], signed, now).ok
          THEN RejectedAtAuth
          ELSE \E p \in live : Encode(p) = parts[2] /\ AcceptedAs(p)
       /\ \A p \in signed :
            /\ h \in {"Bearer", Encode(p), "Bearer  " \o Encode(p),
                      "Basic " \o Encode(p), "Bearer forged"}
                 => RejectedAtAuth
            /\ h \in {"Bearer " \o Encode(p), "bearer " \o Encode(p),
                      "BEARER " \o Encode(p)}
                 => IF p \in live THEN AcceptedAs(p) ELSE RejectedAtAuth

\* a lowercase "bearer <valid token>" header was accepted
C2_Witness ==
  /\ last.route = "authMiddleware"
  /\ \E p \in signed : last.authorization = "bearer " \o Encode(p)
  /\ last.status = 200
  /\ last.user # NoUser

\* C3: after any sequence of register, v2 create and v2 update, every
\* stored user has papel "ADMIN" exactly when tipo_usuario is "admin" and
\* papel "PROFESSOR" exactly when tipo_usuario is "professor"; a user
\* created through v2 with tipo_usuario "admin" is stored with the papel
\* "ADMIN" that v1 reads.
C3_PapelMirrorsTipo ==
  /\ \A id \in DOMAIN users :
       /\ users[id].papel = "ADMIN" <=> users[id].tipo_usuario = "admin"
       /\ users[id].papel = "PROFESSOR" <=> users[id].tipo_usuario = "professor"
       /\ users[id].papel \in {"ADMIN", "PROFESSOR"}
  /\ (/\ last.route = "POST /v2/users"
      /\ last.status = 201
      /\ last.body.tipo_usuario = "admin")
       => users[last.out[1].id].papel = "ADMIN"

\* a v2 create with tipo_usuario "admin" stored an ADMIN row
C3_Witness ==
  /\ last.route = "POST /v2/users"
  /\ last.status = 201
  /\ last.body.tipo_usuario = "admin"
  /\ last.out[1].id \in DOMAIN users
  /\ users[last.out[1].id].papel = "ADMIN"
  /\ users[last.out[1].id].tipo_usuario = "admin"

\* the row a successful PUT /v2/users/:id wrote, and the row it found
Updated == last.route = "PUT /v2/users/:id" /\ last.status = 200

OldRow == last.before[TargetId]

NewRow == users[TargetId]

\* C4: on every v2 update each stored field that is neither named in the
\* request body nor the mirror of a named field keeps its previous value:
\* nome changes only with primeiro_nome or sobrenome, papel only with
\* tipo_usuario, and telefone, foto, email and senha only when named.
C4_UpdateFrame ==
  Updated =>
    /\ \A f \in {"primeiro_nome", "sobrenome", "email", "senha",
                 "tipo_usuario", "telefone", "foto"} :
         last.body[f] = UNDEFINED => NewRow[f] = OldRow[f]
    /\ (last.body.primeiro_nome = UNDEFINED /\ last.body.sobrenome = UNDEFINED)
         => NewRow.nome = OldRow.nome
    /\ last.body.tipo_usuario = UNDEFINED => NewRow.papel = OldRow.papel
    /\ NewRow.id = OldRow.id

\* an update that names only a name field erased the stored telefone
C4_Witness ==
  /\ Updated
  /\ last.body.telefone = UNDEFINED
  /\ last.body.primeiro_nome # UNDEFINED
  /\ OldRow.telefone = Phone
  /\ NewRow.telefone = NULL

\* C5: after any sequence of register, v2 create and v2 update, the senha
\* stored for every user is a hash and never the plaintext password that a
\* request supplied.
C5_SenhaHashed ==
  /\ \A id \in DOMAIN users : StartsWith(users[id].senha, "$2b$10$")
  /\ ("senha" \in DOMAIN last.body /\ last.body.senha # UNDEFINED) =>
       \A id \in DOMAIN users : users[id].senha # last.body.senha

\* a v2 create stored the password of its request as it was sent
C5_Witness ==
  /\ last.route = "POST /v2/users"
  /\ last.status = 201
  /\ users[last.out[1].id].senha = last.body.senha

\* C6: after any sequence of register, v2 create and v2 update, every
\* stored user whose primeiro_nome and sobrenome are both non-null has
\* nome = primeiro_nome + " " + sobrenome, trimmed.
C6_NomeJoined ==
  \A id \in DOMAIN users :
    (users[id].primeiro_nome # NULL /\ users[id].sobrenome # NULL)
      => users[id].nome
           = trim(users[id].primeiro_nome \o " " \o users[id].sobrenome)

\* a registration that sent nome together with both halves stored the nome
\* it was sent
C6_Witness ==
  /\ last.route = "POST /v2/auth/register"
  /\ last.status = 201
  /\ last.body.nome = "Li Wu"
  /\ users[last.out[1].id].primeiro_nome = "Ana"
  /\ users[last.out[1].id].sobrenome = "Sa"
  /\ users[last.out[1].id].nome = "Li Wu"

\* C7: a v2 update of a user whose stored primeiro_nome and sobrenome are
\* both set, given only one of the two name fields, recomputes nome from
\* the supplied value and the stored value of the other field; given
\* tipo_usuario it sets papel to "ADMIN" for "admin" and to "PROFESSOR"
\* otherwise.
C7_HalfNameRecomputes ==
  (Updated /\ OldRow.primeiro_nome # NULL /\ OldRow.sobrenome # NULL) =>
    /\ (last.body.primeiro_nome = UNDEFINED /\ last.body.sobrenome # UNDEFINED)
         => NewRow.nome
              = trim(OldRow.primeiro_nome \o " " \o trim(last.body.sobrenome))
    /\ (last.body.primeiro_nome # UNDEFINED /\ last.body.sobrenome = UNDEFINED)
         => NewRow.nome
              = trim(trim(last.body.primeiro_nome) \o " " \o OldRow.sobrenome)
    /\ last.body.tipo_usuario # UNDEFINED
         => NewRow.papel = IF last.body.tipo_usuario = "admin"
                           THEN "ADMIN" ELSE "PROFESSOR"

\* an update that sent only a blank sobrenome was answered 200 and left
\* nome as it was
C7_Witness ==
  /\ Updated
  /\ OldRow.primeiro_nome = "Ana"
  /\ OldRow.sobrenome = "Sa"
  /\ last.body.primeiro_nome = UNDEFINED
  /\ last.body.sobrenome = Blank
  /\ NewRow.nome = "Ana Sa"

\* the letter-case class of a role name
RoleClass(r) ==
  IF r \in {"ADMIN", "admin", "Admin"} THEN "ADMIN"
  ELSE IF r \in {"PROFESSOR", "professor", "Professor"} THEN "PROFESSOR"
  ELSE "<other>"

GatePassed(gate) ==
  last.status = 200 /\ last.ran = <<gate, "controller">>

GateRefused(gate, status, code) ==
  last.status = status /\ last.code = code /\ last.ran = <<gate>>

\* C8: authorize(allowedRoles) rejects a request without identity with 401;
\* with an identity and an empty list it passes whatever the role; otherwise
\* it passes exactly when the role, compared without regard to letter case,
\* is in the list, and rejects with 403 in every other case; the downstream
\* handler runs only when it passes.
C8_Authorize ==
  last.route = "authorize" =>
    LET allowedRoles == last.body.allowedRoles
        member == /\ last.user.role # UNDEFINED
                  /\ \E i \in 1..Len(allowedRoles) :
                       RoleClass(allowedRoles[i]) = RoleClass(last.user.role)
    IN IF last.user = NoUser
       THEN GateRefused("authorize", 401, "UNAUTHORIZED")
       ELSE IF Len(allowedRoles) = 0 \/ member
       THEN GatePassed("authorize")
       ELSE GateRefused("authorize", 403, "FORBIDDEN")

\* a role written in another letter case than the list passed
C8_Witness ==
  /\ last.route = "authorize"
  /\ last.body.allowedRoles = <<"ADMIN">>
  /\ last.user.role = "admin"
  /\ GatePassed("authorize")

\* the integer JavaScript's parseInt reads from each parameter of ParamIds
\* ("abc" has none)
ParsedParam ==
  [s \in ParamIds \ {"abc"} |->
     CASE s = "1" -> 1 [] s = "2" -> 2 [] s = "2abc" -> 2 [] s = "-1" -> 0 - 1
       [] s = " 1" -> 1 [] s = "1.5" -> 1 [] s = "01" -> 1]

\* C9: isOwnerOrAdmin(paramName) rejects a request without identity with
\* 401; an identity whose role is ADMIN in any letter case passes for every
\* resource id; any other identity passes exactly when the integer parsed
\* from the named route parameter equals its id, and is otherwise rejected
\* with 403.
C9_OwnerOrAdmin ==
  last.route = "isOwnerOrAdmin" =>
    LET s == last.params.id
        owner == s \in DOMAIN ParsedParam /\ ParsedParam[s] = last.user.id
    IN IF last.user = NoUser
       THEN GateRefused("isOwnerOrAdmin", 401, "UNAUTHORIZED")
       ELSE IF RoleClass(last.user.role) = "ADMIN" \/ owner
       THEN GatePassed("isOwnerOrAdmin")
       ELSE GateRefused("isOwnerOrAdmin", 403, "FORBIDDEN")

\* a PROFESSOR passed on the parameter "2abc", which parses to its id 2
C9_Witness ==
  /\ last.route = "isOwnerOrAdmin"
  /\ last.user.role = "PROFESSOR"
  /\ last.user.id = 2
  /\ last.params.id = "2abc"
  /\ GatePassed("isOwnerOrAdmin")

\* C10: every user record a v2 endpoint returns has no senha field, no nome
\* field and no papel field.
C10_V2ResponseFields ==
  \A i \in 1..Len(last.out) :
    DOMAIN last.out[i] \cap {"senha", "nome", "papel"} = {}

\* a registration answered with a record that carries nome and papel
C10_Witness ==
  /\ last.route = "POST /v2/auth/register"
  /\ last.status = 201
  /\ {"nome", "papel"} \subseteq DOMAIN last.out[1]

\* the exchange was a registration or a login that succeeded
Authenticated ==
  \/ last.route = "POST /v2/auth/register" /\ last.status = 201
  \/ last.route = "POST /v2/auth/login" /\ last.status = 200

\* C11: the token returned by every successful register and login carries
\* sub = the stored user's id, email = the supplied email, role = the stored
\* papel (PROFESSOR when registration omitted papel), with iat and exp, and
\* the user object of the response has no senha field.
C11_TokenPayload ==
  Authenticated =>
    LET user == last.out[1]
        p == [sub |-> user.id, email |-> last.body.email,
              role |-> users[user.id].papel,
              iat |-> now, exp |-> now + JWT_EXPIRES_IN]
    IN /\ user.id \in DOMAIN users
       /\ last.token = Encode(p)
       /\ p \in signed
       /\ verifyToken(last.token, signed, now).ok
       /\ (last.route = "POST /v2/auth/register" /\ last.body.papel = UNDEFINED)
            => p.role = "PROFESSOR"
       /\ "senha" \notin DOMAIN user

\* a login returned an ADMIN token for a user registered without papel and
\* promoted afterwards
C11_Witness ==
  /\ last.route = "POST /v2/auth/login"
  /\ last.status = 200
  /\ last.out[1].papel = "ADMIN"
  /\ \E p \in signed : p.sub = last.out[1].id /\ p.role = "PROFESSOR"

\* C12: after any sequence of register, v2 create and v2 update, every
\* stored email is in lowercase, so no two stored users have emails that
\* differ only in letter case.
C12_EmailsLowercase ==
  /\ \A id \in DOMAIN users : users[id].email = toLowerCase(users[id].email)
  /\ \A i, j \in DOMAIN users :
       toLowerCase(users[i].email) = toLowerCase(users[j].email) => i = j

\* two accounts were registered whose addresses differ only in letter case
C12_Witness ==
  /\ last.route = "POST /v2/auth/register"
  /\ last.status = 201
  /\ last.body.email = "A@x.co"
  /\ \E i, j \in DOMAIN users :
       users[i].email = "a@x.co" /\ users[j].email = "A@x.co"

\* the users, before the exchange, that own the address e
Owners(e) == {i \in DOMAIN last.before : last.before[i].email = e}

\* C13: registering or creating a user with an email that already belongs
\* to a stored user fails with 409 (EMAIL_IN_USE on /v2/auth/register,
\* ConflictError on /v2/users) and writes nothing; a v2 update that changes
\* the email to one owned by a different user fails with 409 and changes
\* nothing, while re-sending the user's own current email is accepted.
C13_EmailConflict ==
  /\ (/\ last.route = "POST /v2/auth/register"
      /\ registerSchema(last.body).success
      /\ Owners(last.body.email) # {})
       => /\ last.status = 409
          /\ last.code = "EMAIL_IN_USE"
          /\ users = last.before
  /\ (/\ last.route = "POST /v2/users"
      /\ "createUserSchema" \in Range(last.ran)
      /\ createUserSchema(last.body).success
      /\ Owners(last.body.email) # {})
       => /\ last.status = 409
          /\ last.code = ConflictError.code
          /\ users = last.before
  /\ (/\ last.route = "PUT /v2/users/:id"
      /\ "updateUserSchema" \in Range(last.ran)
      /\ updateUserSchema(last.body).success
      /\ TargetId \in DOMAIN last.before
      /\ last.body.email # UNDEFINED)
       => /\ Owners(last.body.email) \ {TargetId} # {}
            => last.status = 409 /\ users = last.before
          /\ Owners(last.body.email) = {TargetId} => last.status = 200

\* a v2 create was answered 201 although the address it sent belongs to a
\* stored user
C13_Witness ==
  /\ last.route = "POST /v2/users"
  /\ last.status = 201
  /\ Owners(last.body.email) # {}

\* C14: a user created with nome only is stored with primeiro_nome and
\* sobrenome null, reads back with both null through GET /v2/users/:id, and
\* each of them stays null until an update names it; no operation fills
\* them from nome.
C14_LegacyNamesStayNull ==
  /\ (/\ last.route = "POST /v2/auth/register"
      /\ last.status = 201
      /\ last.body.primeiro_nome = UNDEFINED
      /\ last.body.sobrenome = UNDEFINED)
       => /\ users[last.out[1].id].primeiro_nome = NULL
          /\ users[last.out[1].id].sobrenome = NULL
          /\ users[last.out[1].id].nome = last.body.nome
  /\ (last.route = "GET /v2/users/:id" /\ last.status = 200)
       => /\ last.out[1].primeiro_nome = users[TargetId].primeiro_nome
          /\ last.out[1].sobrenome = users[TargetId].sobrenome
  /\ \A id \in DOMAIN last.before \cap DOMAIN users :
       \A f \in {"primeiro_nome", "sobrenome"} :
         (last.before[id][f] = NULL /\ users[id][f] # NULL)
           => /\ last.route = "PUT /v2/users/:id"
              /\ TargetId = id
              /\ last.body[f] # UNDEFINED
              /\ users[id][f] = trim(last.body[f])

\* a user registered with nome only, updated since without naming either
\* half, was read through GET /v2/users/:id with both halves null
C14_Witness ==
  /\ last.route = "GET /v2/users/:id"
  /\ last.status = 200
  /\ last.out[1].primeiro_nome = NULL
  /\ last.out[1].sobrenome = NULL
  /\ users[TargetId].nome = "Li Wu"
  /\ users[TargetId].senha = "senha456"

(***************************************************************************)
(* Subjects and questions.                                                 *)
(***************************************************************************)
\* the row a route parameter addresses
RowId == parseInt(last.params.id)

\* C15: POST /questions with dificuldade 0 or 6 is answered 400 and writes
\* nothing; with a dificuldade in 1..5, a new enunciado and existing
\* disciplinaId and autorId it is answered 201 and stores that dificuldade;
\* and every stored question has a dificuldade in 1..5, whatever creates and
\* updates came before.
C15_Dificuldade ==
  /\ \A i \in DOMAIN questions : questions[i].dificuldade \in 1..5
  /\ last.route = "POST /questions" =>
       /\ last.body.dificuldade \in {0, 6} =>
            last.status = 400 /\ questions = last.questionsBefore
       /\ ( /\ last.body.dificuldade \in 1..5
            /\ ~enunciadoExists(last.questionsBefore, last.body.enunciado)
            /\ last.body.disciplinaId \in DOMAIN last.subjectsBefore
            /\ last.body.autorId \in DOMAIN last.before ) =>
            /\ last.status = 201
            /\ \E i \in DOMAIN questions \ DOMAIN last.questionsBefore :
                 questions[i].dificuldade = last.body.dificuldade

\* a question is stored and a further POST with dificuldade 6 was refused
C15_Witness ==
  /\ last.route = "POST /questions"
  /\ last.body.dificuldade = 6
  /\ last.status = 400
  /\ last.message = "Dificuldade deve ser entre 1 e 5"
  /\ questions # EmptyStore

\* a POST /questions body that passes validateQuestionData and the enunciado
\* lookup, so that the references are what decides the answer
WellFormedQuestion ==
  /\ Truthy(last.body.enunciado)
  /\ ~enunciadoExists(last.questionsBefore, last.body.enunciado)
  /\ last.body.dificuldade \in 1..5
  /\ last.body.disciplinaId > 0
  /\ last.body.autorId > 0

\* C16: POST /questions whose disciplinaId is the id of no subject is answered
\* 400 "Disciplina não encontrada"; whose disciplinaId exists and whose
\* autorId is the id of no user is answered 400 "Autor não encontrado"; a
\* request with a dangling reference never writes a question.
C16_CreateReferences ==
  last.route = "POST /questions" =>
    LET noSubject == last.body.disciplinaId \notin DOMAIN last.subjectsBefore
        noAuthor == last.body.autorId \notin DOMAIN last.before
    IN /\ noSubject \/ noAuthor =>
            last.status = 400 /\ questions = last.questionsBefore
       /\ WellFormedQuestion /\ noSubject =>
            last.message = "Disciplina não encontrada"
       /\ WellFormedQuestion /\ ~noSubject /\ noAuthor =>
            last.message = "Autor não encontrado"

\* a well-formed question for an existing subject and a missing author was
\* refused
C16_Witness ==
  /\ last.route = "POST /questions"
  /\ WellFormedQuestion
  /\ last.body.disciplinaId \in DOMAIN last.subjectsBefore
  /\ last.body.autorId \notin DOMAIN last.before
  /\ last.status = 400
  /\ last.message = "Autor não encontrado"

\* the route parameter is the decimal numeral of a positive integer
PositiveParam == RowId > 0 /\ last.params.id = ToString(RowId)

\* the body holds the field (a number-valued field)
Supplied(n) == n # ABSENT

\* C17: a PUT to a stored question whose body holds a disciplinaId or an
\* autorId that is the id of no record, and a PUT to a stored subject whose
\* body holds a professorId that is the id of no user, is answered 400 and
\* leaves the tables as they were; a PUT whose parameter is the id of no
\* question (no subject) is answered 404.
C17_UpdateReferences ==
  /\ (last.route = "PUT /questions/:id" /\ PositiveParam) =>
       IF RowId \in DOMAIN last.questionsBefore
       THEN ( \/ /\ Supplied(last.body.disciplinaId)
                 /\ last.body.disciplinaId \notin DOMAIN last.subjectsBefore
              \/ /\ Supplied(last.body.autorId)
                 /\ last.body.autorId \notin DOMAIN last.before ) =>
              last.status = 400 /\ questions = last.questionsBefore
       ELSE last.status = 404 /\ questions = last.questionsBefore
  /\ (last.route = "PUT /subjects/:id" /\ PositiveParam) =>
       IF RowId \in DOMAIN last.subjectsBefore
       THEN ( /\ Supplied(last.body.professorId)
              /\ last.body.professorId \notin DOMAIN last.before ) =>
              last.status = 400 /\ subjects = last.subjectsBefore
       ELSE last.status = 404 /\ subjects = last.subjectsBefore

\* a PUT to a stored question with disciplinaId 0, the id of no subject, was
\* answered 200
C17_Witness ==
  /\ last.route = "PUT /questions/:id"
  /\ PositiveParam
  /\ RowId \in DOMAIN last.questionsBefore
  /\ last.body.disciplinaId = 0
  /\ 0 \notin DOMAIN last.subjectsBefore
  /\ last.status = 200

\* the tables are as they were before the request
NothingWritten ==
  /\ users = last.before
  /\ subjects = last.subjectsBefore
  /\ questions = last.questionsBefore

\* the rows other than RowId are as they were
OthersKept(rows, before) ==
  /\ DOMAIN rows = DOMAIN before \ {RowId}
  /\ \A i \in DOMAIN rows : rows[i] = before[i]

\* some subject or question holds the id of the row the request addresses
SubjectReferenced ==
  \E q \in DOMAIN last.questionsBefore :
    last.questionsBefore[q].disciplinaId = RowId

UserReferenced ==
  \/ \E q \in DOMAIN last.questionsBefore :
       last.questionsBefore[q].autorId = RowId
  \/ \E d \in DOMAIN last.subjectsBefore :
       last.subjectsBefore[d].professorId = RowId

InvalidParams == {"abc", "0", "-1", "1.5"}

ByIdRoutes ==
  {"GET /subjects/:id", "PUT /subjects/:id", "DELETE /subjects/:id",
   "GET /questions/:id", "PUT /questions/:id", "DELETE /questions/:id"}

\* C19: a get-by-id, update or delete on subjects or questions whose id
\* parameter is no positive integer is answered 400 with the invalid-id
\* message, returns no record and writes nothing.
C19_InvalidId ==
  (last.route \in ByIdRoutes /\ last.params.id \in InvalidParams) =>
    /\ last.status = 400
    /\ last.message = InvalidIdMessage
    /\ last.out = <<>>
    /\ NothingWritten

\* DELETE /subjects/1.5 was answered 200 and subject 1 is gone
C19_Witness ==
  /\ last.route = "DELETE /subjects/:id"
  /\ last.params.id = "1.5"
  /\ last.status = 200
  /\ 1 \in DOMAIN last.subjectsBefore
  /\ 1 \notin DOMAIN subjects

(***************************************************************************)
(* /v2/auth/me.                                                            *)
(***************************************************************************)
\* the payloads of the issued, unexpired tokens the request carries
Presented ==
  {p \in signed : now < p.exp /\ last.authorization = "Bearer " \o Encode(p)}

\* C20: GET /v2/auth/me is answered 401 UNAUTHORIZED when the request carries
\* no valid bearer token; with a valid token of a stored user it is answered
\* 200 with that user's stored fields, senha excepted.
C20_Me ==
  last.route = "GET /v2/auth/me" =>
    IF Presented = {}
    THEN last.status = 401 /\ last.code = "UNAUTHORIZED"
    ELSE \A p \in Presented :
           p.sub \in DOMAIN users =>
             /\ last.status = 200
             /\ Len(last.out) = 1
             /\ last.out[1].id = p.sub
             /\ last.out[1].email = users[p.sub].email
             /\ last.out[1].papel = users[p.sub].papel
             /\ "senha" \notin DOMAIN last.out[1]

\* a request with a valid token of a stored user was answered 404: no route
\* matched it
C20_Witness ==
  /\ last.route = "GET /v2/auth/me"
  /\ \E p \in Presented : p.sub \in DOMAIN users
  /\ last.status = 404
  /\ last.code = "NOT_FOUND"
  /\ last.ran = <<>>

(***************************************************************************)
(* Login.                                                                  *)
(***************************************************************************)
\* the login request passed loginSchema
WellFormedLogin ==
  /\ last.route = "POST /v2/auth/login"
  /\ IsEmail(last.body.email)
  /\ Len(last.body.senha) >= 1

\* the users whose stored address is the one the login sent
Holders == {i \in DOMAIN last.before : last.before[i].email = last.body.email}

\* the password sent is not the one stored for the address sent
WrongPassword ==
  \E i \in Holders : last.before[i].senha # bcryptHash(last.body.senha)

\* C21: a login with an address no user has and a login with a stored
\* address and a wrong password get the same answer, 401
\* INVALID_CREDENTIALS "Credenciais inválidas" with no user and no token in
\* it, and leave the store as it was.
C21_LoginUniform ==
  (WellFormedLogin /\ (Holders = {} \/ WrongPassword)) =>
    /\ last.status = 401
    /\ last.code = "INVALID_CREDENTIALS"
    /\ last.message = "Credenciais inválidas"
    /\ last.out = <<>>
    /\ last.token = ""
    /\ users = last.before

\* with one address registered, a login named another address
C21_Witness ==
  /\ WellFormedLogin
  /\ Holders = {}
  /\ last.before # EmptyStore
  /\ last.status = 401
  /\ last.message = "Credenciais inválidas"

(***************************************************************************)
(* Sessions.                                                               *)
(***************************************************************************)
ProtectedRoutes ==
  {"POST /v2/users", "PUT /v2/users/:id", "DELETE /v2/users/:id"}

\* C22: on a protected route a token the server issued is accepted, with the
\* id, email and role it was issued with, exactly as long as the clock is
\* before its exp, whatever the user store holds: also when the user it
\* names was deleted or has another role by now.  From its exp on it is
\* refused 401 UNAUTHORIZED.
C22_ExpiryOnly ==
  last.route \in ProtectedRoutes =>
    \A p \in signed :
      last.authorization = "Bearer " \o Encode(p) =>
        IF now < p.exp
        THEN /\ last.user = [id |-> p.sub, email |-> p.email, role |-> p.role]
             /\ Len(last.ran) > 1
             /\ last.status # 401
        ELSE /\ last.status = 401
             /\ last.code = "UNAUTHORIZED"
             /\ last.user = NoUser
             /\ last.ran = <<"authMiddleware">>

\* an administrator who was deleted still deleted or updated a user
C22_Witness ==
  /\ last.route \in ProtectedRoutes
  /\ last.status = 200
  /\ last.user.role = "ADMIN"
  /\ last.user.id \notin DOMAIN last.before
  /\ users # last.before

(***************************************************************************)
(* Validation.                                                             *)
(***************************************************************************)
Validators == {"idParamSchema", "createUserSchema", "updateUserSchema"}

\* the part of the request a validator reads and replaces
SourceOf(v) == IF v = "idParamSchema" THEN "params" ELSE "body"

\* what the schema of validator v makes of the request as it was received
ParseOf(v) ==
  CASE v = "idParamSchema" -> idParamSchema(last.params)
    [] v = "createUserSchema" -> createUserSchema(last.body)
    [] v = "updateUserSchema" -> updateUserSchema(last.body)

NameTaken ==
  /\ Truthy(last.body.nome)
  /\ \E i \in DOMAIN last.subjectsBefore :
       /\ last.subjectsBefore[i].nome = last.body.nome
       /\ last.route = "PUT /subjects/:id" => i # RowId

\* C24: a POST /subjects, or a PUT /subjects/:id that renames, with the name
\* of another stored subject is refused and writes nothing, and no two
\* stored subjects share a name.
C24_SubjectNames ==
  /\ \A i, j \in DOMAIN subjects : subjects[i].nome = subjects[j].nome => i = j
  /\ (last.route \in {"POST /subjects", "PUT /subjects/:id"} /\ NameTaken) =>
       last.status >= 400 /\ subjects = last.subjectsBefore

\* a second subject was created under the name of the first
C24_Witness ==
  /\ last.route = "POST /subjects"
  /\ NameTaken
  /\ last.status = 201
  /\ \E i, j \in DOMAIN subjects : i # j /\ subjects[i].nome = subjects[j].nome

(***************************************************************************)
(* Roles.                                                                  *)
(***************************************************************************)
\* the request was authenticated with a token whose role is not ADMIN
NonAdminRequest ==
  /\ last.route \in ProtectedRoutes
  /\ last.user # NoUser
  /\ toUpperCase(last.user.role) # "ADMIN"

\* C25: a request authenticated with a non-ADMIN token leaves papel and
\* tipo_usuario of every stored user, the sender included, as they were, and
\* creates no user.
C25_RoleFrozen ==
  NonAdminRequest =>
    /\ DOMAIN users \subseteq DOMAIN last.before
    /\ \A i \in DOMAIN users :
         /\ users[i].papel = last.before[i].papel
         /\ users[i].tipo_usuario = last.before[i].tipo_usuario

\* a professor's PUT to their own id with tipo_usuario admin was answered 200
\* and the stored papel is ADMIN now
C25_Witness ==
  /\ NonAdminRequest
  /\ last.route = "PUT /v2/users/:id"
  /\ last.user.id = RowId
  /\ last.body.tipo_usuario = "admin"
  /\ last.status = 200
  /\ last.before[RowId].papel = "PROFESSOR"
  /\ users[RowId].papel = "ADMIN"

(***************************************************************************)
(* Order of the steps.                                                     *)
(***************************************************************************)
Gates == {"authMiddleware", "isAdmin", "isOwnerOrAdmin"}

\* C26: on the protected routes no validator is entered before every gate
\* of the route has passed, and the controller is entered last.
C26_StepOrder ==
  last.route \in ProtectedRoutes =>
    \A i, j \in 1..Len(last.ran) :
      /\ (last.ran[i] \in Gates /\ last.ran[j] \in Validators) => i < j
      /\ last.ran[j] = "controller" => i <= j

\* a professor's PUT to /v2/users/abc was answered 400 by idParamSchema
\* before isOwnerOrAdmin was entered
C26_Witness ==
  /\ last.route = "PUT /v2/users/:id"
  /\ last.params.id = "abc"
  /\ last.user.role = "PROFESSOR"
  /\ last.ran = <<"authMiddleware", "idParamSchema">>
  /\ last.status = 400

(***************************************************************************)
(* Passwords set through /v2/users.                                        *)
(***************************************************************************)
Passwords == {"Senha123", "Nova1234", "senha123"}

\* the row whose password the request set
PasswordSetOn ==
  IF last.route = "POST /v2/users"
  THEN DOMAIN users \ DOMAIN last.before
  ELSE {RowId} \cap DOMAIN users

\* a login with the address of row i and password p would succeed now
CanLogin(i, p) == login(users, users[i].email, p, now).err = NoError

\* C27: after a POST /v2/users answered 201, or a PUT /v2/users/:id answered
\* 200 whose body holds senha, the user logs in with the stored address and
\* that password and with no other.
C27_PasswordWorks ==
  ( /\ \/ last.route = "POST /v2/users" /\ last.status = 201
       \/ last.route = "PUT /v2/users/:id" /\ last.status = 200
    /\ Truthy(last.body.senha) ) =>
    \A i \in PasswordSetOn :
      \A p \in Passwords : CanLogin(i, p) <=> p = last.body.senha

\* a login with the address and the password a POST /v2/users or a PUT
\* stored was answered 401
C27_Witness ==
  /\ last.route = "POST /v2/auth/login"
  /\ last.status = 401
  /\ \E i \in DOMAIN last.before :
       /\ last.before[i].email = last.body.email
       /\ last.before[i].senha = last.body.senha

(***************************************************************************)
(* The legacy nome.                                                        *)
(***************************************************************************)
\* C28: no stored nome contains the word "null" or "undefined", the text a
\* template literal writes for an absent name component.
C28_NomeClean ==
  \A i \in DOMAIN users :
    users[i].nome # NULL =>
      ~Includes(users[i].nome, "null") /\ ~Includes(users[i].nome, "undefined")

\* a PUT that sent primeiro_nome alone to a row whose sobrenome is null
\* stored the nome "Bia null"
C28_Witness ==
  /\ last.route = "PUT /v2/users/:id"
  /\ last.status = 200
  /\ last.body.primeiro_nome = "Bia"
  /\ last.body.sobrenome = UNDEFINED
  /\ last.before[RowId].sobrenome = NULL
  /\ users[RowId].nome = "Bia null"

(***************************************************************************)
(* Error answers.                                                          *)
(***************************************************************************)
\* the request was refused by a middleware or by business logic
Refused == last.status >= 400 /\ last.answeredBy # "notFound"

\* C29: every refusal, on the user, auth, subject and question routes alike,
\* is answered by the terminal error handler with a body that has
\* error.code; no controller answers a refusal itself.
C29_OneErrorHandler ==
  Refused => last.answeredBy = "errorHandler" /\ last.code # ""

\* POST /questions was refused by the controller itself, with a body that
\* has a message and no error code
C29_Witness ==
  /\ last.route = "POST /questions"
  /\ last.status = 400
  /\ last.answeredBy = "controller"
  /\ last.code = ""
  /\ last.message = "Disciplina não encontrada"

(***************************************************************************)
(* Two requests at once with the same e-mail                               *)
(***************************************************************************)
SameEmail(r, q) ==
  /\ r # q
  /\ pending[r].pc # "idle"
  /\ pending[q].pc # "idle"
  /\ pending[r].data.email = pending[q].data.email

\* the answer a request gets when the e-mail is taken before it starts
SequentialConflict(kind) ==
  Sequential(kind, [i \in {1} |-> [email |-> "a@x.co"]], 2,
             [email |-> "a@x.co"], 0).err

\* C30: whenever two requests (register or create-user, in any mix) carry
\* the same e-mail and their pre-checks and inserts interleave in any
\* order, at most one user row with that e-mail exists, and a request that
\* did not create the row is answered with the 409 conflict error the
\* service gives when the e-mail was taken before the request started.
C30_ConcurrentEmail ==
  /\ \A i, j \in DOMAIN users : users[i].email = users[j].email => i = j
  /\ \A r, q \in Requests :
       (SameEmail(r, q) /\ pending[r].pc = "done" /\ pending[r].status # 201)
         => /\ pending[r].status = 409
            /\ pending[r].status = SequentialConflict(pending[r].kind).status
            /\ pending[r].code = SequentialConflict(pending[r].kind).code

\* both pre-checks passed, one insert created the row and the other was
\* rejected by the store
C30_Witness ==
  \E r, q \in Requests :
    /\ SameEmail(r, q)
    /\ pending[q].pc = "done" /\ pending[q].status = 201
    /\ pending[r].pc = "done" /\ pending[r].status = 500
    /\ Cardinality({i \in DOMAIN users : users[i].email = pending[r].data.email}) = 1

====
